---- MODULE Spec2Model ----
(***************************************************************************)
(* A model of the sticky concurrency tracker of kiro-rs (src/src/sticky.rs) *)
(* and of the StreamGuard handle that releases its reservations.           *)
(*                                                                         *)
(* The tracker's four mutex-protected tables are the state.  Every method  *)
(* is cut into one action per critical section, so that the states between *)
(* two lock acquisitions of one call are states of the model and other     *)
(* threads can run there.  Time is a discrete clock counted in minutes.    *)
(***************************************************************************)
EXTENDS Integers, Sequences, FiniteSets, TLC

(***************************************************************************)
(* Bounds of the model.                                                    *)
(***************************************************************************)
NumProcs == 2         \* threads that can be inside a multi-step method
MaxCalls == 2         \* try_acquire calls in one behaviour of Spec and GuardSpec
MaxClock == 1         \* minutes the clock can advance
RaceMaxCalls == 3     \* try_acquire calls in one behaviour of RaceSpec
SeqMaxCalls == 3      \* try_acquire calls in one behaviour of SeqSpec
MaxGap == 4           \* the f64s below 1.0 drawn: 1 - d * 2^-53 for d in 1..MaxGap
MaxCredLimit == 2     \* largest max_concurrent_per_credential tried
MaxKeyLimit == 2      \* largest max_concurrent_per_key tried

Procs == 1..NumProcs
Keys == {"key-a", "key-b"}
Creds == {1, 2}

\* available_credentials: a slice of distinct credentials in priority order
AvailableLists == {<<>>, <<1>>, <<2>>, <<1, 2>>, <<2, 1>>}
\* the lists the concurrent specifications call with
RaceLists == {<<1>>, <<1, 2>>, <<2, 1>>}

VARIABLES
    max_concurrent_per_credential,  \* StickyTracker fields set by new()
    max_concurrent_per_key,
    sticky_expiry_minutes,
    zombie_stream_timeout_minutes,
    bindings,          \* Mutex<HashMap<String, StickyBinding>>
    concurrency,       \* Mutex<HashMap<u64, CredentialConcurrency>>
    active_streams,    \* Mutex<HashMap<StreamId, ActiveStream>>
    stats,             \* Mutex<StickyStats>
    next_stream_id,    \* AtomicU64
    guards,            \* the StreamGuards constructed and not yet dropped
    clock,             \* Instant::now(), in minutes
    calls,             \* try_acquire calls started so far
    api_keys,          \* ApiKeyManager: the rows of table api_keys
    uuids,             \* the UUIDs drawn so far
    stored_credentials,       \* the ids of the stored_credentials that exist
    entries,           \* RequestLog: Mutex<VecDeque<RequestLogEntry>>
    pushed,            \* every entry ever pushed onto the request log, in push order
    sessions,          \* KiroOAuthWebState: Mutex<HashMap<String, WebAuthSession>>
    device_auth,       \* the OIDC service: the state of each device authorization
    added,             \* per session: the credentials add_credential stored for it
    pc,                \* per thread: the critical section it is about to enter
    frame              \* per thread: the locals of the method it is running

config == <<max_concurrent_per_credential, max_concurrent_per_key,
            sticky_expiry_minutes, zombie_stream_timeout_minutes>>
tables == <<bindings, concurrency, active_streams, stats, next_stream_id>>
stores == <<api_keys, uuids, stored_credentials>>
services == <<entries, pushed, sessions, device_auth, added>>
vars == <<config, services, stores, tables, guards, clock, calls, pc, frame>>

(***************************************************************************)
(* Option<T> is a sequence of length 0 or 1; HashMap<K, V> is a function   *)
(* whose domain is the set of keys present.                                *)
(***************************************************************************)
None == <<>>
Some(x) == <<x>>
IsSome(o) == Len(o) = 1
Unwrap(o) == o[1]

EmptyMap == [x \in {} |-> 0]
MapInsert(m, k, v) == [x \in (DOMAIN m) \cup {k} |-> IF x = k THEN v ELSE m[x]]
MapRemove(m, k) == [x \in (DOMAIN m) \ {k} |-> m[x]]
MapRestrict(m, ks) == [x \in (DOMAIN m) \cap ks |-> m[x]]

RECURSIVE SumOver(_, _)
SumOver(m, ks) ==
    IF ks = {} THEN 0
    ELSE LET k == CHOOSE x \in ks : TRUE
         IN  m[k] + SumOver(m, ks \ {k})

Range(s) == {s[i] : i \in DOMAIN s}

(***************************************************************************)
(* Records of the source.                                                  *)
(***************************************************************************)
StickyBinding(c, t) == [credential_id |-> c, last_request_at |-> t]

CredentialConcurrency(n, pk) == [active_count |-> n, per_key_counts |-> pk]

ActiveStream(c, k, a, t) ==
    [credential_id |-> c, api_key |-> k, activated |-> a, last_touch_at |-> t]

StickyStats(h, a, u, q, r) ==
    [hits |-> h, assignments |-> a, unbinds |-> u, queue_jumps |-> q,
     rejections_429 |-> r]

Acquired(c, s) == [kind |-> "Acquired", credential_id |-> c, stream_id |-> s]
AllFull(retry_after_secs) ==
    [kind |-> "AllFull", retry_after_secs |-> retry_after_secs]

(***************************************************************************)
(* retry_after_secs: 5.0 + (fastrand::f64() * 5.0), line 232, in f64.      *)
(* An f64 of this computation is written eighths / 8 - below * u, where u  *)
(* is 2^-53 for the random draw, 2^-50 for the product (the spacing of the *)
(* f64s in [4, 8)) and 2^-49 for the sum (their spacing in [8, 16)).       *)
(***************************************************************************)
F64(eighths, below) == [eighths |-> eighths, below |-> below]

\* fastrand::f64() is in [0, 1): 0, 1/2, and the f64s next below 1
RandomF64s == {F64(0, 0), F64(4, 0)} \cup {F64(8, d) : d \in 1..MaxGap}

\* n / d rounded to the nearest integer, ties to even, as f64 arithmetic rounds
RoundHalfEven(n, d) ==
    LET q == n \div d
        r == n % d
    IN  IF 2 * r < d THEN q
        ELSE IF 2 * r > d THEN q + 1
        ELSE IF q % 2 = 0 THEN q ELSE q + 1

\* x * 5.0: exact for a multiple of 1/8; just below 5 the product 5 - 5d * 2^-53
\* is rounded to a multiple of 2^-50
F64TimesFive(x) ==
    IF x.below = 0 THEN F64(5 * x.eighths, 0)
    ELSE F64(5 * x.eighths, RoundHalfEven(5 * x.below, 8))

\* 5.0 + y: exact for a multiple of 1/8; just below 10 the sum 10 - r * 2^-50 is
\* rounded to a multiple of 2^-49
F64FivePlus(y) ==
    IF y.below = 0 THEN F64(40 + y.eighths, 0)
    ELSE F64(40 + y.eighths, RoundHalfEven(y.below, 2))

RetryAfterSecs(x) == F64FivePlus(F64TimesFive(x))

(***************************************************************************)
(* Pure helpers of StickyTracker.                                          *)
(***************************************************************************)
\* the pair (active_count, per_key_count), (0, 0) for a missing entry
current_counts_locked(conc, credential_id, api_key) ==
    IF credential_id \in DOMAIN conc
    THEN LET entry == conc[credential_id]
         IN  <<entry.active_count,
               IF api_key \in DOMAIN entry.per_key_counts
               THEN entry.per_key_counts[api_key] ELSE 0>>
    ELSE <<0, 0>>

ActiveCount(conc, c) == current_counts_locked(conc, c, "")[1]
PerKeyCount(conc, c, k) == current_counts_locked(conc, c, k)[2]

\* one bucket update of the selection loop: bucket is None or Some(<<id, active, idx>>)
\* mutant: on a tie the later position replaces the earlier
BucketUpdateLastOnTie(bucket, id, active_count, idx) ==
    IF IsSome(bucket)
    THEN LET best == Unwrap(bucket)
         IN  IF active_count <= best[2]
             THEN Some(<<id, active_count, idx>>)
             ELSE bucket
    ELSE Some(<<id, active_count, idx>>)

BucketUpdate(bucket, id, active_count, idx) ==
    IF IsSome(bucket)
    THEN LET best == Unwrap(bucket)
         IN  IF active_count < best[2] \/ (active_count = best[2] /\ idx < best[3])
             THEN Some(<<id, active_count, idx>>)
             ELSE bucket
    ELSE Some(<<id, active_count, idx>>)

RECURSIVE SelectLoop(_, _, _, _, _, _)
SelectLoop(conc, available, max, idx, preferred, fallback) ==
    IF idx > Len(available)
    THEN IF IsSome(preferred) THEN Some(Unwrap(preferred)[1])
         ELSE IF IsSome(fallback) THEN Some(Unwrap(fallback)[1])
         ELSE None
    ELSE LET id == available[idx]
             active_count == ActiveCount(conc, id)
         IN  IF active_count >= max
             THEN SelectLoop(conc, available, max, idx + 1, preferred, fallback)
             ELSE IF active_count * 2 < max
             THEN SelectLoop(conc, available, max, idx + 1,
                             BucketUpdate(preferred, id, active_count, idx), fallback)
             ELSE SelectLoop(conc, available, max, idx + 1,
                             preferred, BucketUpdate(fallback, id, active_count, idx))

\* mutant: a credential counts as full only above the limit
select_best_above_limit(conc, available, max) ==
    SelectLoop(conc, available, max + 1, 1, None, None)

select_best_credential_locked(conc, available, max) ==
    SelectLoop(conc, available, max, 1, None, None)

\* mutant: the per-key entry is created at 1 and never added to
increment_without_key_add(conc, credential_id, api_key) ==
    LET entry == IF credential_id \in DOMAIN conc
                 THEN conc[credential_id]
                 ELSE CredentialConcurrency(0, EmptyMap)
    IN  MapInsert(conc, credential_id,
            CredentialConcurrency(entry.active_count + 1,
                MapInsert(entry.per_key_counts, api_key, 1)))

increment_concurrency_locked(conc, credential_id, api_key) ==
    LET entry == IF credential_id \in DOMAIN conc
                 THEN conc[credential_id]
                 ELSE CredentialConcurrency(0, EmptyMap)
        key_count == IF api_key \in DOMAIN entry.per_key_counts
                     THEN entry.per_key_counts[api_key] ELSE 0
    IN  MapInsert(conc, credential_id,
            CredentialConcurrency(entry.active_count + 1,
                MapInsert(entry.per_key_counts, api_key, key_count + 1)))

\* mutant: a per-key count of 1 is left in place instead of being removed
decrement_keeping_last_key(conc, credential_id, api_key) ==
    IF credential_id \notin DOMAIN conc THEN conc
    ELSE LET entry == conc[credential_id]
             active_count == IF entry.active_count > 0
                             THEN entry.active_count - 1 ELSE entry.active_count
             per_key_counts ==
                 IF api_key \in DOMAIN entry.per_key_counts
                      /\ entry.per_key_counts[api_key] > 1
                 THEN MapInsert(entry.per_key_counts, api_key,
                                entry.per_key_counts[api_key] - 1)
                 ELSE entry.per_key_counts
         IN  MapInsert(conc, credential_id,
                       CredentialConcurrency(active_count, per_key_counts))

\* mutant: the key's whole count is taken off, not one stream
decrement_whole_key(conc, credential_id, api_key) ==
    IF credential_id \notin DOMAIN conc THEN conc
    ELSE LET entry == conc[credential_id]
             key_count == IF api_key \in DOMAIN entry.per_key_counts
                          THEN entry.per_key_counts[api_key] ELSE 0
             active_count == IF entry.active_count > key_count
                             THEN entry.active_count - key_count ELSE 0
             per_key_counts == MapRemove(entry.per_key_counts, api_key)
         IN  IF active_count = 0 /\ DOMAIN per_key_counts = {}
             THEN MapRemove(conc, credential_id)
             ELSE MapInsert(conc, credential_id,
                            CredentialConcurrency(active_count, per_key_counts))

\* mutant: active_count is tested like the per-key count and stays at 1
decrement_above_one(conc, credential_id, api_key) ==
    IF credential_id \notin DOMAIN conc THEN conc
    ELSE LET entry == conc[credential_id]
             active_count == IF entry.active_count > 1
                             THEN entry.active_count - 1 ELSE entry.active_count
             per_key_counts ==
                 IF api_key \in DOMAIN entry.per_key_counts
                 THEN IF entry.per_key_counts[api_key] > 1
                      THEN MapInsert(entry.per_key_counts, api_key,
                                     entry.per_key_counts[api_key] - 1)
                      ELSE MapRemove(entry.per_key_counts, api_key)
                 ELSE entry.per_key_counts
         IN  IF active_count = 0 /\ DOMAIN per_key_counts = {}
             THEN MapRemove(conc, credential_id)
             ELSE MapInsert(conc, credential_id,
                            CredentialConcurrency(active_count, per_key_counts))

decrement_concurrency(conc, credential_id, api_key) ==
    IF credential_id \notin DOMAIN conc THEN conc
    ELSE LET entry == conc[credential_id]
             active_count == IF entry.active_count > 0
                             THEN entry.active_count - 1 ELSE entry.active_count
             per_key_counts ==
                 IF api_key \in DOMAIN entry.per_key_counts
                 THEN IF entry.per_key_counts[api_key] > 1
                      THEN MapInsert(entry.per_key_counts, api_key,
                                     entry.per_key_counts[api_key] - 1)
                      ELSE MapRemove(entry.per_key_counts, api_key)
                 ELSE entry.per_key_counts
         IN  IF active_count = 0 /\ DOMAIN per_key_counts = {}
             THEN MapRemove(conc, credential_id)
             ELSE MapInsert(conc, credential_id,
                            CredentialConcurrency(active_count, per_key_counts))

\* mutant: the credential test is inverted, so a matching binding is not refreshed
touch_binding_unless_matching(b, api_key, credential_id, now) ==
    IF api_key \in DOMAIN b /\ b[api_key].credential_id # credential_id
    THEN MapInsert(b, api_key, StickyBinding(credential_id, now))
    ELSE b

touch_binding(b, api_key, credential_id, now) ==
    IF api_key \in DOMAIN b /\ b[api_key].credential_id = credential_id
    THEN MapInsert(b, api_key, StickyBinding(credential_id, now))
    ELSE b

\* whether remove_binding_if_matches removes (and so returns true)
BindingMatches(b, api_key, credential_id) ==
    api_key \in DOMAIN b /\ b[api_key].credential_id = credential_id

remove_binding_if_matches(b, api_key, credential_id) ==
    IF BindingMatches(b, api_key, credential_id) THEN MapRemove(b, api_key) ELSE b

\* mutant: the queue jump is allowed once more than the per-key limit permits
AcquirePathJumpAtLimit(conc, bound, available, api_key, max_cred, max_key) ==
    IF ~IsSome(bound) THEN "select"
    ELSE LET credential_id == Unwrap(bound)
             counts == current_counts_locked(conc, credential_id, api_key)
             is_full == counts[1] >= max_cred
         IN  IF credential_id \notin Range(available) THEN "unavailable"
             ELSE IF ~is_full THEN "hit"
             ELSE IF counts[2] > 0 /\ counts[2] <= max_key THEN "queue_jump"
             ELSE IF counts[2] = 0 THEN "unbind_full"
             ELSE "select"

\* mutant: the queue jump does not ask for a stream of the key on the credential
AcquirePathJumpWithoutStream(conc, bound, available, api_key, max_cred, max_key) ==
    IF ~IsSome(bound) THEN "select"
    ELSE LET credential_id == Unwrap(bound)
             counts == current_counts_locked(conc, credential_id, api_key)
             is_full == counts[1] >= max_cred
         IN  IF credential_id \notin Range(available) THEN "unavailable"
             ELSE IF ~is_full THEN "hit"
             ELSE IF counts[2] < max_key THEN "queue_jump"
             ELSE "select"

(***************************************************************************)
(* The branch try_acquire takes once it holds the concurrency lock, from   *)
(* the binding it read before (lines 140-200).                             *)
\* mutant: the binding is honoured without looking at the available list
AcquirePathHonoursUnavailable(conc, bound, available, api_key, max_cred, max_key) ==
    IF ~IsSome(bound) THEN "select"
    ELSE LET credential_id == Unwrap(bound)
             counts == current_counts_locked(conc, credential_id, api_key)
             is_full == counts[1] >= max_cred
         IN  IF ~is_full THEN "hit"
             ELSE IF counts[2] > 0 /\ counts[2] < max_key THEN "queue_jump"
             ELSE IF counts[2] = 0 THEN "unbind_full"
             ELSE "select"

(***************************************************************************)
AcquirePath(conc, bound, available, api_key, max_cred, max_key) ==
    IF ~IsSome(bound) THEN "select"
    ELSE LET credential_id == Unwrap(bound)
             counts == current_counts_locked(conc, credential_id, api_key)
             is_full == counts[1] >= max_cred
         IN  IF credential_id \notin Range(available) THEN "unavailable"
             ELSE IF ~is_full THEN "hit"
             ELSE IF counts[2] > 0 /\ counts[2] < max_key THEN "queue_jump"
             ELSE IF counts[2] = 0 THEN "unbind_full"
             ELSE "select"

(***************************************************************************)
(* The API key store (src/src/apikeys.rs): one SQLite table, api_keys,     *)
(* behind a Mutex<Connection>.  The table is the sequence of its rows in   *)
(* insertion order; a row keeps the column values as SQLite stores them:   *)
(* enabled as 0 or 1, routing_mode as text, credential_id as an i64 or     *)
(* NULL (None).  Timestamps are the clock's minute.  Integer widths are    *)
(* scaled: a u64 has IdBits bits, an i64 one bit less and a sign.          *)
(***************************************************************************)
IdBits == 3

I64_MAX == 2 ^ (IdBits - 1) - 1

\* i64::try_from(id).ok() for a u64 id
i64_try_from(id) == IF id <= I64_MAX THEN Some(id) ELSE None
\* u64::try_from(id).ok() for an i64 id
u64_try_from(id) == IF id >= 0 THEN Some(id) ELSE None

\* enum RoutingMode, lines 14-17
Auto == "Auto"
Fixed == "Fixed"
RoutingModes == {Auto, Fixed}

\* str::to_ascii_lowercase over the spellings of the routing modes
to_ascii_lowercase(value) ==
    CASE value \in {"FIXED", "Fixed"} -> "fixed"
      [] value \in {"AUTO", "Auto"} -> "auto"
      [] OTHER -> value

eq_ignore_ascii_case(a, b) == to_ascii_lowercase(a) = to_ascii_lowercase(b)

as_db_value(mode) == IF mode = Auto THEN "auto" ELSE "fixed"

from_db_value(value) ==
    IF eq_ignore_ascii_case(value, "fixed") THEN Fixed ELSE Auto

\* Uuid::new_v4(): the n-th UUID drawn; no two draws are equal
Uuid(n) == "uuid-" \o ToString(n)

\* auth::constant_time_eq: equality of the two strings, whatever their lengths
constant_time_eq(a, b) == a = b

ApiKeyRow(id, name, key, enabled, created_at, routing_mode, credential_id) ==
    [id |-> id, name |-> name, key |-> key, enabled |-> enabled,
     created_at |-> created_at, last_used_at |-> None, request_count |-> 0,
     input_tokens |-> 0, output_tokens |-> 0, routing_mode |-> routing_mode,
     credential_id |-> credential_id]

\* struct ApiKeyRecord, lines 44-58, as create_key fills it
ApiKeyRecord(id, name, key, created_at, routing_mode, credential_id) ==
    [id |-> id, name |-> name, key |-> key, enabled |-> TRUE,
     created_at |-> created_at, last_used_at |-> None, request_count |-> 0,
     input_tokens |-> 0, output_tokens |-> 0, routing_mode |-> routing_mode,
     credential_id |-> credential_id]

AuthenticatedApiKey(key_id, routing_mode, credential_id) ==
    [key_id |-> key_id, routing_mode |-> routing_mode,
     credential_id |-> credential_id]

\* the credential_id column read back: credential_id_raw.and_then(u64::try_from)
ReadCredentialId(credential_id_raw) ==
    IF IsSome(credential_id_raw) THEN u64_try_from(Unwrap(credential_id_raw))
    ELSE None

\* the credential_id parameter bound: credential_id.and_then(i64::try_from)
BindCredentialId(credential_id) ==
    IF IsSome(credential_id) THEN i64_try_from(Unwrap(credential_id)) ELSE None

\* struct ApiKeyPublicInfo as list() fills it from a row (key_preview left out)
ApiKeyPublicInfo(row) ==
    [id |-> row.id, name |-> row.name, key |-> row.key,
     enabled |-> row.enabled # 0, created_at |-> row.created_at,
     last_used_at |-> row.last_used_at, request_count |-> row.request_count,
     input_tokens |-> row.input_tokens, output_tokens |-> row.output_tokens,
     routing_mode |-> from_db_value(row.routing_mode),
     credential_id |-> ReadCredentialId(row.credential_id)]

\* UPDATE api_keys SET ... WHERE ...: the rows matching are replaced
UpdateWhere(rows, Matches(_), Set(_)) ==
    [i \in DOMAIN rows |-> IF Matches(rows[i]) THEN Set(rows[i]) ELSE rows[i]]

\* the number of rows a statement changed
Changed(rows, Matches(_)) == Cardinality({i \in DOMAIN rows : Matches(rows[i])})

\* the key of the configuration
InitialKey == "sk-initial"

\* ApiKeyManager::new on a fresh database: the table is empty, so the Default
\* key is inserted with the configured key
ApiKeyManagerNew(initial_key, now) ==
    <<ApiKeyRow(Uuid(1), "Default", initial_key, 1, now, as_db_value(Auto), None)>>

\* authenticate: the first enabled row whose key equals the incoming one, 0 if none
AuthenticatedRow(rows, incoming) ==
    LET matching == {i \in DOMAIN rows :
                        /\ rows[i].enabled = 1
                        /\ constant_time_eq(rows[i].key, incoming)}
    IN  IF matching = {} THEN 0
        ELSE CHOOSE i \in matching : \A j \in matching : i <= j

authenticate(rows, incoming, now) ==
    LET i == AuthenticatedRow(rows, incoming)
    IN  IF i = 0 THEN [rows |-> rows, result |-> None]
        ELSE LET Matches(row) == row.id = rows[i].id
                 Set(row) == [row EXCEPT !.last_used_at = Some(now)]
             IN  [rows |-> UpdateWhere(rows, Matches, Set),
                  result |-> Some(AuthenticatedApiKey(
                                rows[i].id,
                                from_db_value(rows[i].routing_mode),
                                ReadCredentialId(rows[i].credential_id)))]

record_usage(rows, key_id, input_tokens, output_tokens, now) ==
    LET Matches(row) == row.id = key_id
        Set(row) == [row EXCEPT !.request_count = @ + 1,
                                !.input_tokens = @ + input_tokens,
                                !.output_tokens = @ + output_tokens,
                                !.last_used_at = Some(now)]
    IN  UpdateWhere(rows, Matches, Set)

list(rows) == [i \in DOMAIN rows |-> ApiKeyPublicInfo(rows[i])]

\* create_key with the two UUIDs it draws: the first for the key, the second
\* for the id
create_key(rows, name, routing_mode, credential_id, now, raw_uuid, id_uuid) ==
    LET item == ApiKeyRecord(id_uuid, name, "sk-kiro-rs-" \o raw_uuid, now,
                             routing_mode, credential_id)
    IN  [rows |-> Append(rows,
                    ApiKeyRow(item.id, item.name, item.key, 1, item.created_at,
                              as_db_value(item.routing_mode),
                              BindCredentialId(item.credential_id))),
         item |-> item]

set_routing(rows, id, routing_mode, credential_id) ==
    LET Matches(row) == row.id = id
        Set(row) == [row EXCEPT !.routing_mode = as_db_value(routing_mode),
                                !.credential_id = BindCredentialId(credential_id)]
    IN  [rows |-> UpdateWhere(rows, Matches, Set),
         changed |-> Changed(rows, Matches) > 0]

\* mutant: the rows are reset to auto but keep their credential_id
reset_routing_keeps_id(rows, credential_id) ==
    LET credential_id_i64 == i64_try_from(credential_id)
        Matches(row) == row.credential_id = credential_id_i64
        Set(row) == [row EXCEPT !.routing_mode = "auto"]
    IN  IF ~IsSome(credential_id_i64) THEN rows
        ELSE UpdateWhere(rows, Matches, Set)

\* mutant: the statement changes no row
reset_routing_changes_nothing(rows, credential_id) == rows

\* a NULL credential_id equals no parameter
reset_routing_for_credential(rows, credential_id) ==
    LET credential_id_i64 == i64_try_from(credential_id)
        Matches(row) == row.credential_id = credential_id_i64
        Set(row) == [row EXCEPT !.routing_mode = "auto", !.credential_id = None]
    IN  IF ~IsSome(credential_id_i64) THEN rows
        ELSE UpdateWhere(rows, Matches, Set)

set_enabled(rows, id, enabled) ==
    LET Matches(row) == row.id = id
        Set(row) == [row EXCEPT !.enabled = IF enabled THEN 1 ELSE 0]
    IN  [rows |-> UpdateWhere(rows, Matches, Set),
         changed |-> Changed(rows, Matches) > 0]

delete_key(rows, id) ==
    [rows |-> SelectSeq(rows, LAMBDA row : row.id # id),
     changed |-> Cardinality({i \in DOMAIN rows : rows[i].id = id}) > 0]

(***************************************************************************)
(* Threads.                                                                *)
(***************************************************************************)
IdleFrame ==
    [op |-> "none", api_key |-> "", available |-> <<>>, now |-> 0,
     bound |-> None, path |-> "", credential_id |-> None, stream_id |-> None,
     retry_after_secs |-> None,
     removed |-> EmptyMap, zombie_ids |-> {}, count |-> 0,
     expired_keys |-> {}, active_keys |-> {},
     program |-> <<>>, held |-> <<>>, snapshot |-> None,
     finished |-> FALSE, usage_recorded |-> FALSE, guard |-> None,
     chunks |-> 0, pings |-> 0, context_input_tokens |-> None,
     buffer |-> <<>>, response_events |-> <<>>, inner |-> <<>>, sent |-> <<>>,
     usage_records |-> 0,
     events |-> <<>>, has_tool_use |-> FALSE, stop_reason |-> "",
     log_entries |-> <<>>,
     item |-> None, authed |-> None, listed |-> <<>>, changed |-> FALSE,
     key_id |-> "", incoming |-> None, status |-> 0,
     kiro_provider |-> FALSE, x_user_id |-> None, is_sticky |-> FALSE,
     stream |-> FALSE,
     decision |-> None, api_calls |-> 0, error |-> None, response |-> None,
     input_tokens |-> 0, token_source |-> "", usage |-> None,
     conc |-> EmptyMap, max |-> 0, ping_due |-> FALSE,
     since_id |-> None, state |-> "", next |-> None]

\* mutant: the concurrency mutex is not taken
LockNotTaken == TRUE

\* the concurrency mutex is held between the two halves of reserve_stream_locked
ConcurrencyLockFree == \A q \in Procs : pc[q] # "reserve_increment"

\* threads are interchangeable: a call is started on the first idle one
FirstIdle(p) == pc[p] = "idle" /\ \A q \in Procs : q < p => pc[q] # "idle"

Goto(p, label, f) ==
    /\ pc' = [pc EXCEPT ![p] = label]
    /\ frame' = [frame EXCEPT ![p] = f]

\* StickyTracker::new, lines 104-121, for the given expiry and zombie timeouts
New(sticky_expiries, zombie_timeouts) ==
    /\ max_concurrent_per_credential \in 1..MaxCredLimit
    /\ max_concurrent_per_key \in 1..MaxKeyLimit
    /\ sticky_expiry_minutes \in sticky_expiries
    /\ zombie_stream_timeout_minutes \in zombie_timeouts
    /\ bindings = EmptyMap
    /\ concurrency = EmptyMap
    /\ active_streams = EmptyMap
    /\ stats = StickyStats(0, 0, 0, 0, 0)
    /\ next_stream_id = 1
    /\ guards = EmptyMap
    /\ clock = 0
    /\ calls = 0
    /\ api_keys = ApiKeyManagerNew(InitialKey, 0)
    /\ uuids = 1
    /\ stored_credentials = {}
    /\ entries = <<>>
    /\ pushed = <<>>
    /\ sessions = EmptyMap
    /\ device_auth = EmptyMap
    /\ added = EmptyMap
    /\ pc = [p \in Procs |-> "idle"]
    /\ frame = [p \in Procs |-> IdleFrame]

Init == New({0}, {0})

(***************************************************************************)
(* try_acquire, lines 123-234.                                             *)
(***************************************************************************)
\* lines 128-135: take the time, read the binding under the bindings lock
TryAcquireBegin(p, api_key, available, now, limit) ==
    /\ FirstIdle(p)
    /\ calls < limit
    /\ calls' = calls + 1
    /\ clock' = now
    /\ Goto(p, "lock_concurrency",
            [IdleFrame EXCEPT !.op = "try_acquire", !.api_key = api_key,
                !.available = available, !.now = now,
                !.bound = IF api_key \in DOMAIN bindings
                          THEN Some(bindings[api_key].credential_id) ELSE None])
    /\ UNCHANGED <<config, services, stores, tables, guards>>

\* first half of reserve_stream_locked (lines 517-527): the id and the table entry
ReserveInsert(p, credential_id, path) ==
    /\ active_streams' = MapInsert(active_streams, next_stream_id,
           ActiveStream(credential_id, frame[p].api_key, FALSE, frame[p].now))
    /\ next_stream_id' = next_stream_id + 1
    /\ Goto(p, "reserve_increment",
            [frame[p] EXCEPT !.path = path, !.credential_id = Some(credential_id),
                             !.stream_id = Some(next_stream_id)])
    /\ UNCHANGED <<bindings, concurrency, stats>>

\* lines 202-234 up to the reservation: global selection under the lock (the
\* jitter of line 232 is local to the call and is drawn here)
SelectOrReject(p) ==
    LET best == select_best_credential_locked(concurrency, frame[p].available,
                                              max_concurrent_per_credential)
    IN  IF IsSome(best)
        THEN ReserveInsert(p, Unwrap(best), "assignment")
        ELSE /\ \E x \in RandomF64s :
                    Goto(p, "count_stat",
                         [frame[p] EXCEPT !.path = "all_full",
                             !.retry_after_secs = Some(RetryAfterSecs(x))])
             /\ UNCHANGED tables

\* line 138 and the branch of lines 140-200 taken with the lock held
TryAcquireLocked(p) ==
    /\ pc[p] = "lock_concurrency"
    /\ ConcurrencyLockFree
    /\ LET path == AcquirePath(concurrency, frame[p].bound, frame[p].available,
                               frame[p].api_key, max_concurrent_per_credential,
                               max_concurrent_per_key)
       IN  CASE path \in {"hit", "queue_jump"} ->
                    ReserveInsert(p, Unwrap(frame[p].bound), path)
             [] path \in {"unavailable", "unbind_full"} ->
                    /\ Goto(p, "remove_binding", [frame[p] EXCEPT !.path = path])
                    /\ UNCHANGED tables
             [] OTHER -> SelectOrReject(p)
    /\ UNCHANGED <<config, services, stores, guards, clock, calls>>

\* mutant: an unbind is counted whether or not the binding was removed
TryAcquireRemoveBindingAlwaysCounts(p) ==
    /\ pc[p] = "remove_binding"
    /\ bindings' = IF BindingMatches(bindings, frame[p].api_key, Unwrap(frame[p].bound))
                   THEN MapRemove(bindings, frame[p].api_key)
                   ELSE bindings
    /\ Goto(p, "count_unbind", frame[p])
    /\ UNCHANGED <<config, services, stores, concurrency, active_streams, stats, next_stream_id,
                   guards, clock, calls>>

\* lines 146 and 193: remove_binding_if_matches under the bindings lock
TryAcquireRemoveBinding(p) ==
    /\ pc[p] = "remove_binding"
    /\ LET matches == BindingMatches(bindings, frame[p].api_key, Unwrap(frame[p].bound))
       IN  /\ bindings' = remove_binding_if_matches(bindings, frame[p].api_key,
                                                    Unwrap(frame[p].bound))
           /\ Goto(p, IF matches THEN "count_unbind" ELSE "relock_concurrency", frame[p])
    /\ UNCHANGED <<config, services, stores, concurrency, active_streams, stats, next_stream_id,
                   guards, clock, calls>>

\* lines 147-148 and 194-195: stats.unbinds under the stats lock
TryAcquireCountUnbind(p) ==
    /\ pc[p] = "count_unbind"
    /\ stats' = [stats EXCEPT !.unbinds = @ + 1]
    /\ Goto(p, "relock_concurrency", frame[p])
    /\ UNCHANGED <<config, services, stores, bindings, concurrency, active_streams, next_stream_id,
                   guards, clock, calls>>

\* lines 151 and 197, then 202-207: the lock again, and global selection
TryAcquireRelocked(p) ==
    /\ pc[p] = "relock_concurrency"
    /\ ConcurrencyLockFree
    /\ SelectOrReject(p)
    /\ UNCHANGED <<config, services, stores, guards, clock, calls>>

\* second half of reserve_stream_locked (line 529), then the lock is dropped
ReserveIncrement(p) ==
    /\ pc[p] = "reserve_increment"
    /\ concurrency' = increment_concurrency_locked(concurrency,
                          Unwrap(frame[p].credential_id), frame[p].api_key)
    /\ Goto(p, "update_binding", frame[p])
    /\ UNCHANGED <<config, services, stores, bindings, active_streams, stats, next_stream_id,
                   guards, clock, calls>>

\* lines 165 and 182 (touch_binding) or 209-216 (insert), under the bindings lock
TryAcquireUpdateBinding(p) ==
    /\ pc[p] = "update_binding"
    /\ bindings' =
           IF frame[p].path = "assignment"
           THEN MapInsert(bindings, frame[p].api_key,
                    StickyBinding(Unwrap(frame[p].credential_id), frame[p].now))
           ELSE touch_binding(bindings, frame[p].api_key,
                    Unwrap(frame[p].credential_id), frame[p].now)
    /\ Goto(p, "count_stat", frame[p])
    /\ UNCHANGED <<config, services, stores, concurrency, active_streams, stats, next_stream_id,
                   guards, clock, calls>>

\* mutant: a queue jump is counted as a hit as well
CountPathJumpIsHit(s, path) ==
    CASE path = "hit" -> [s EXCEPT !.hits = @ + 1]
      [] path = "queue_jump" -> [s EXCEPT !.queue_jumps = @ + 1, !.hits = @ + 1]
      [] path = "assignment" -> [s EXCEPT !.assignments = @ + 1]
      [] OTHER -> [s EXCEPT !.rejections_429 = @ + 1]

\* the counter of the path taken: lines 166-167, 183-184, 218-219, 228-229
CountPath(s, path) ==
    CASE path = "hit" -> [s EXCEPT !.hits = @ + 1]
      [] path = "queue_jump" -> [s EXCEPT !.queue_jumps = @ + 1]
      [] path = "assignment" -> [s EXCEPT !.assignments = @ + 1]
      [] OTHER -> [s EXCEPT !.rejections_429 = @ + 1]

\* the value the call returns once its path is fixed: lines 168-171, 185-188,
\* 220-223 and 231-233
TryAcquireResult(f) ==
    IF f.path = "all_full" THEN AllFull(Unwrap(f.retry_after_secs))
    ELSE Acquired(Unwrap(f.credential_id), Unwrap(f.stream_id))

\* StreamGuard::new (lines 605-611): the handle the caller wraps the stream id in
StreamGuard(activated) == [activated |-> activated]

\* the stats lock, then the return; with wrap the caller builds the StreamGuard
TryAcquireCountStat(p, wrap) ==
    /\ pc[p] = "count_stat"
    /\ stats' = CountPath(stats, frame[p].path)
    /\ guards' = IF wrap /\ frame[p].path # "all_full"
                 THEN MapInsert(guards, Unwrap(frame[p].stream_id), StreamGuard(FALSE))
                 ELSE guards
    /\ Goto(p, "idle", IdleFrame)
    /\ UNCHANGED <<config, services, stores, bindings, concurrency, active_streams, next_stream_id,
                   clock, calls>>

(***************************************************************************)
(* Callers only know the stream ids try_acquire has returned to them.      *)
(***************************************************************************)
ReturnedIds ==
    {sid \in 1..(next_stream_id - 1) : \A q \in Procs : frame[q].stream_id # Some(sid)}

\* Instant::now() is monotonic: a reading is not before the last one
Instants(max_clock) == clock..max_clock

(***************************************************************************)
(* activate_stream (lines 250-257) and touch_stream (lines 282-287): one   *)
(* critical section on active_streams each.                                *)
(***************************************************************************)
\* mutant: the flag is set and the touch time is left as it was
activate_without_touch(streams, stream_id, now) ==
    IF stream_id \in DOMAIN streams
    THEN [streams EXCEPT ![stream_id].activated = TRUE]
    ELSE streams

activate_stream(streams, stream_id, now) ==
    IF stream_id \in DOMAIN streams
    THEN [streams EXCEPT ![stream_id].last_touch_at = now,
                         ![stream_id].activated = TRUE]
    ELSE streams

touch_stream(streams, stream_id, now) ==
    IF stream_id \in DOMAIN streams
    THEN [streams EXCEPT ![stream_id].last_touch_at = now]
    ELSE streams

ActivateStream(stream_id, now) ==
    /\ stream_id \in ReturnedIds
    /\ active_streams' = activate_stream(active_streams, stream_id, now)
    /\ clock' = IF stream_id \in DOMAIN active_streams THEN now ELSE clock
    /\ UNCHANGED <<config, services, stores, bindings, concurrency, stats, next_stream_id,
                   guards, calls, pc, frame>>

TouchStream(stream_id, now) ==
    /\ stream_id \in ReturnedIds
    /\ active_streams' = touch_stream(active_streams, stream_id, now)
    /\ clock' = IF stream_id \in DOMAIN active_streams THEN now ELSE clock
    /\ UNCHANGED <<config, services, stores, bindings, concurrency, stats, next_stream_id,
                   guards, calls, pc, frame>>

(***************************************************************************)
(* cancel_reservation (lines 259-268) and deactivate_stream (270-280):     *)
(* remove under the active_streams lock, then decrement_concurrency under  *)
(* the concurrency lock.                                                   *)
(***************************************************************************)
\* mutant: a reservation that was never activated is forgotten without a decrement
RemoveStreamActivatedOnly(p, op, stream_id) ==
    /\ active_streams' = MapRemove(active_streams, stream_id)
    /\ IF stream_id \in DOMAIN active_streams /\ active_streams[stream_id].activated
       THEN Goto(p, "release_decrement",
                 [IdleFrame EXCEPT !.op = op, !.stream_id = Some(stream_id),
                     !.removed = MapRestrict(active_streams, {stream_id})])
       ELSE Goto(p, "idle", IdleFrame)
    /\ UNCHANGED <<config, services, stores, bindings, concurrency, stats, next_stream_id, clock, calls>>

\* mutant: the stream is read and left in the table
RemoveStreamLeavesEntry(p, op, stream_id) ==
    /\ active_streams' = active_streams
    /\ IF stream_id \in DOMAIN active_streams
       THEN Goto(p, "release_decrement",
                 [IdleFrame EXCEPT !.op = op, !.stream_id = Some(stream_id),
                     !.removed = MapRestrict(active_streams, {stream_id})])
       ELSE Goto(p, "idle", IdleFrame)
    /\ UNCHANGED <<config, services, stores, bindings, concurrency, stats, next_stream_id, clock, calls>>

RemoveStream(p, op, stream_id) ==
    /\ active_streams' = MapRemove(active_streams, stream_id)
    /\ IF stream_id \in DOMAIN active_streams
       THEN Goto(p, "release_decrement",
                 [IdleFrame EXCEPT !.op = op, !.stream_id = Some(stream_id),
                     !.removed = MapRestrict(active_streams, {stream_id})])
       ELSE Goto(p, "idle", IdleFrame)
    /\ UNCHANGED <<config, services, stores, bindings, concurrency, stats, next_stream_id, clock, calls>>

CancelReservation(p, stream_id) ==
    /\ FirstIdle(p)
    /\ stream_id \in ReturnedIds
    /\ RemoveStream(p, "cancel_reservation", stream_id)
    /\ UNCHANGED guards

DeactivateStream(p, stream_id) ==
    /\ FirstIdle(p)
    /\ stream_id \in ReturnedIds
    /\ RemoveStream(p, "deactivate_stream", stream_id)
    /\ UNCHANGED guards

\* lines 265-267 and 277-279
ReleaseDecrement(p) ==
    /\ pc[p] = "release_decrement"
    /\ ConcurrencyLockFree
    /\ LET stream == frame[p].removed[Unwrap(frame[p].stream_id)]
       IN  concurrency' = decrement_concurrency(concurrency, stream.credential_id,
                                                stream.api_key)
    /\ Goto(p, "idle", IdleFrame)
    /\ UNCHANGED <<config, services, stores, bindings, active_streams, stats, next_stream_id,
                   guards, clock, calls>>

(***************************************************************************)
(* StreamGuard (lines 598-631).                                            *)
(***************************************************************************)
\* activate(): lines 613-618
GuardActivate(stream_id, now) ==
    /\ stream_id \in DOMAIN guards
    /\ ~guards[stream_id].activated
    /\ active_streams' = activate_stream(active_streams, stream_id, now)
    /\ clock' = IF stream_id \in DOMAIN active_streams THEN now ELSE clock
    /\ guards' = MapInsert(guards, stream_id, StreamGuard(TRUE))
    /\ UNCHANGED <<config, services, stores, bindings, concurrency, stats, next_stream_id,
                   calls, pc, frame>>

\* touch(): lines 620-622
GuardTouch(stream_id, now) ==
    /\ stream_id \in DOMAIN guards
    /\ active_streams' = touch_stream(active_streams, stream_id, now)
    /\ clock' = IF stream_id \in DOMAIN active_streams THEN now ELSE clock
    /\ UNCHANGED <<config, services, stores, bindings, concurrency, stats, next_stream_id,
                   guards, calls, pc, frame>>

\* mutant: the guard is consumed and its stream is left in the table
GuardDropForgets(p, stream_id) ==
    /\ FirstIdle(p)
    /\ stream_id \in DOMAIN guards
    /\ guards' = MapRemove(guards, stream_id)
    /\ UNCHANGED <<config, services, stores, tables, clock, calls, pc, frame>>

\* Drop for StreamGuard, lines 625-631: the guard is consumed, the stream deactivated
GuardDrop(p, stream_id) ==
    /\ FirstIdle(p)
    /\ stream_id \in DOMAIN guards
    /\ guards' = MapRemove(guards, stream_id)
    /\ RemoveStream(p, "drop", stream_id)

(***************************************************************************)
(* cleanup_zombies, lines 289-334.                                         *)
(***************************************************************************)
ReservationTimeoutMinutes == 2

\* mutant: only activated streams are ever taken for zombies
IsZombieActivatedOnly(stream, now, timeout) ==
    stream.activated /\ now - stream.last_touch_at > timeout

\* lines 300-309
IsZombie(stream, now, timeout) ==
    LET effective_timeout == IF stream.activated THEN timeout
                             ELSE ReservationTimeoutMinutes
    IN  now - stream.last_touch_at > effective_timeout

\* lines 295-316: collect the ids under the active_streams lock
CleanupZombiesScan(p, now) ==
    /\ FirstIdle(p)
    /\ clock' = now
    /\ LET zombie_ids == {sid \in DOMAIN active_streams :
               IsZombie(active_streams[sid], now, zombie_stream_timeout_minutes)}
       IN  IF zombie_ids = {}
           THEN Goto(p, "idle", IdleFrame)
           ELSE Goto(p, "cleanup_remove",
                     [IdleFrame EXCEPT !.op = "cleanup_zombies",
                                       !.zombie_ids = zombie_ids])
    /\ UNCHANGED <<config, services, stores, tables, guards, calls>>

\* lines 318-326: the lock again, remove the ids that are still there
CleanupZombiesRemove(p) ==
    /\ pc[p] = "cleanup_remove"
    /\ LET removed == MapRestrict(active_streams, frame[p].zombie_ids)
       IN  /\ active_streams' =
                  MapRestrict(active_streams, DOMAIN active_streams \ frame[p].zombie_ids)
           /\ IF DOMAIN removed = {}
              THEN Goto(p, "idle", IdleFrame)
              ELSE Goto(p, "cleanup_decrement",
                        [frame[p] EXCEPT !.removed = removed,
                                         !.count = Cardinality(DOMAIN removed)])
    /\ UNCHANGED <<config, services, stores, bindings, concurrency, stats, next_stream_id,
                   guards, clock, calls>>

\* lines 328-333: one decrement_concurrency per removed stream, in the Vec's order
CleanupZombiesDecrement(p, stream_id) ==
    /\ pc[p] = "cleanup_decrement"
    /\ ConcurrencyLockFree
    /\ stream_id \in DOMAIN frame[p].removed
    /\ LET stream == frame[p].removed[stream_id]
           rest == MapRemove(frame[p].removed, stream_id)
       IN  /\ concurrency' = decrement_concurrency(concurrency, stream.credential_id,
                                                   stream.api_key)
           /\ IF DOMAIN rest = {}
              THEN Goto(p, "idle", IdleFrame)
              ELSE Goto(p, "cleanup_decrement", [frame[p] EXCEPT !.removed = rest])
    /\ UNCHANGED <<config, services, stores, bindings, active_streams, stats, next_stream_id,
                   guards, clock, calls>>

(***************************************************************************)
(* cleanup_expired_bindings, lines 336-390.                                *)
(***************************************************************************)
\* lines 345 and 375: now.duration_since(last_request_at) > timeout; the
\* duration is zero when last_request_at is later than now
IsExpired(binding, now, timeout) ==
    (IF now > binding.last_request_at THEN now - binding.last_request_at ELSE 0)
        > timeout

\* lines 337-356: the instant, then the expired keys under the bindings lock
CleanupExpiredScan(p, now) ==
    /\ FirstIdle(p)
    /\ clock' = now
    /\ LET expired_keys == {k \in DOMAIN bindings :
               IsExpired(bindings[k], now, sticky_expiry_minutes)}
       IN  IF expired_keys = {}
           THEN Goto(p, "idle", IdleFrame)
           ELSE Goto(p, "expired_active_keys",
                     [IdleFrame EXCEPT !.op = "cleanup_expired_bindings",
                                       !.now = now, !.expired_keys = expired_keys])
    /\ UNCHANGED <<config, services, stores, tables, guards, calls>>

\* lines 358-364: the keys of the Active Streams under the active_streams lock
CleanupExpiredActiveKeys(p) ==
    /\ pc[p] = "expired_active_keys"
    /\ Goto(p, "expired_remove",
            [frame[p] EXCEPT !.active_keys =
                {active_streams[sid].api_key : sid \in DOMAIN active_streams}])
    /\ UNCHANGED <<config, services, stores, tables, guards, clock, calls>>

\* the keys the loop of lines 369-381 removes
ExpiredToRemove(b, expired_keys, active_keys, now, timeout) ==
    {k \in expired_keys \ active_keys :
        k \in DOMAIN b /\ IsExpired(b[k], now, timeout)}

\* lines 366-382: the bindings lock again
CleanupExpiredRemove(p) ==
    /\ pc[p] = "expired_remove"
    /\ LET gone == ExpiredToRemove(bindings, frame[p].expired_keys,
                                   frame[p].active_keys, frame[p].now,
                                   sticky_expiry_minutes)
       IN  /\ bindings' = MapRestrict(bindings, DOMAIN bindings \ gone)
           /\ IF gone = {}
              THEN Goto(p, "idle", IdleFrame)
              ELSE Goto(p, "expired_count",
                        [frame[p] EXCEPT !.count = Cardinality(gone)])
    /\ UNCHANGED <<config, services, stores, concurrency, active_streams, stats, next_stream_id,
                   guards, clock, calls>>

\* lines 384-389: stats.unbinds under the stats lock, and the return
CleanupExpiredCount(p) ==
    /\ pc[p] = "expired_count"
    /\ stats' = [stats EXCEPT !.unbinds = @ + frame[p].count]
    /\ Goto(p, "idle", IdleFrame)
    /\ UNCHANGED <<config, services, stores, bindings, concurrency, active_streams, next_stream_id,
                   guards, clock, calls>>

(***************************************************************************)
(* snapshot (lines 392-433): one critical section under all four mutexes.  *)
(***************************************************************************)
CredentialSnapshot(id, active_count, bound_keys) ==
    [id |-> id, active_count |-> active_count, bound_keys |-> bound_keys]

StickySnapshot(credentials, st, active_stream_count) ==
    [credentials |-> credentials, stats |-> st,
     active_stream_count |-> active_stream_count]

\* String order on the api keys of the model
KeyRank(k) == IF k = "key-a" THEN 1 ELSE 2

RECURSIVE SortedKeys(_)
SortedKeys(ks) ==
    IF ks = {} THEN <<>>
    ELSE LET k == CHOOSE x \in ks : \A y \in ks : KeyRank(x) <= KeyRank(y)
         IN  <<k>> \o SortedKeys(ks \ {k})

RECURSIVE SortedIds(_)
SortedIds(ids) ==
    IF ids = {} THEN <<>>
    ELSE LET id == CHOOSE x \in ids : \A y \in ids : x <= y
         IN  <<id>> \o SortedIds(ids \ {id})

snapshot(b, conc, streams, st) ==
    LET bound_keys_by_credential(c) == {k \in DOMAIN b : b[k].credential_id = c}
        credential_ids ==
            (DOMAIN conc) \cup {b[k].credential_id : k \in DOMAIN b}
        ids == SortedIds(credential_ids)
    IN  StickySnapshot(
            [i \in 1..Len(ids) |->
                CredentialSnapshot(
                    ids[i],
                    IF ids[i] \in DOMAIN conc THEN conc[ids[i]].active_count ELSE 0,
                    SortedKeys(bound_keys_by_credential(ids[i])))],
            st,
            Cardinality(DOMAIN streams))

\* the four lock() calls go through when no thread holds one of the mutexes;
\* between the steps of the model only concurrency can be held
Snapshot(p) ==
    /\ FirstIdle(p)
    /\ ConcurrencyLockFree
    /\ Goto(p, "snapshot_return",
            [IdleFrame EXCEPT !.op = "snapshot",
                !.snapshot = Some(snapshot(bindings, concurrency, active_streams,
                                           stats))])
    /\ UNCHANGED <<config, services, stores, tables, guards, clock, calls>>

SnapshotReturn(p) ==
    /\ pc[p] = "snapshot_return"
    /\ Goto(p, "idle", IdleFrame)
    /\ UNCHANGED <<config, services, stores, tables, guards, clock, calls>>

(***************************************************************************)
(* The locking of the tracker's methods, lock() by lock() and drop by      *)
(* drop: each method is the sequence of lock and unlock operations it      *)
(* performs on the four mutexes, one sequence for each way through it.     *)
(***************************************************************************)
Locks == {"bindings", "concurrency", "active_streams", "stats"}

Lock(l) == <<"lock", l>>
Unlock(l) == <<"unlock", l>>
\* a critical section on one mutex
Hold(l) == <<Lock(l), Unlock(l)>>

RECURSIVE Repeat(_, _)
Repeat(seq, n) == IF n = 0 THEN <<>> ELSE seq \o Repeat(seq, n - 1)

\* remove_binding_if_matches and the stats.unbinds that follows when it removed
\* (lines 145-151 and 192-197), between dropping and retaking concurrency
UnbindLocks(unbind) ==
    CASE unbind = "none" -> <<>>
      [] unbind = "kept" ->
             <<Unlock("concurrency")>> \o Hold("bindings") \o <<Lock("concurrency")>>
      [] unbind = "removed" ->
             <<Unlock("concurrency")>> \o Hold("bindings") \o Hold("stats")
                 \o <<Lock("concurrency")>>

\* reserve_stream_locked inside the concurrency lock, then the binding and the
\* counter (lines 158-167, 175-184, 205-219); or the rejection (226-230)
OutcomeLocks(outcome) ==
    IF outcome = "acquired"
    THEN Hold("active_streams") \o <<Unlock("concurrency")>> \o Hold("bindings")
             \o Hold("stats")
    ELSE <<Unlock("concurrency")>> \o Hold("stats")

TryAcquireLocks(unbind, outcome) ==
    Hold("bindings") \o <<Lock("concurrency")>> \o UnbindLocks(unbind)
        \o OutcomeLocks(outcome)

\* cancel_reservation and deactivate_stream: the decrement only if the stream
\* was there
ReleaseLocks(found) ==
    Hold("active_streams") \o (IF found THEN Hold("concurrency") ELSE <<>>)

\* cleanup_zombies: the scan; if it found ids, the removal and one
\* decrement_concurrency per stream removed
CleanupZombiesLocks(found, removed) ==
    Hold("active_streams")
        \o (IF found THEN Hold("active_streams") \o Repeat(Hold("concurrency"), removed)
            ELSE <<>>)

\* cleanup_expired_bindings
CleanupExpiredLocks(found, removed) ==
    Hold("bindings")
        \o (IF found
            THEN Hold("active_streams") \o Hold("bindings")
                     \o (IF removed THEN Hold("stats") ELSE <<>>)
            ELSE <<>>)

\* mutant: snapshot takes active_streams before concurrency
SnapshotLocksStreamsFirst == <<"bindings", "active_streams", "concurrency", "stats">>

\* snapshot, lines 394-397: four guards alive together
SnapshotLocks == <<"bindings", "concurrency", "active_streams", "stats">>

\* the guards are locals: dropped at the return in reverse order of declaration
SnapshotProgram ==
    [i \in 1..Len(SnapshotLocks) |-> Lock(SnapshotLocks[i])]
        \o [i \in 1..Len(SnapshotLocks) |->
                Unlock(SnapshotLocks[Len(SnapshotLocks) + 1 - i])]

MaxRemoved == 2

LockPrograms ==
    {[op |-> "try_acquire", program |-> TryAcquireLocks(u, o)] :
        u \in {"none", "kept", "removed"}, o \in {"acquired", "all_full"}}
    \cup {[op |-> op, program |-> Hold("active_streams")] :
            op \in {"activate_stream", "touch_stream", "stream_snapshots"}}
    \cup {[op |-> "get_bound_credential", program |-> Hold("bindings")]}
    \cup {[op |-> op, program |-> ReleaseLocks(found)] :
            op \in {"cancel_reservation", "deactivate_stream"}, found \in BOOLEAN}
    \cup {[op |-> "cleanup_zombies", program |-> CleanupZombiesLocks(found, n)] :
            found \in BOOLEAN, n \in 0..MaxRemoved}
    \cup {[op |-> "cleanup_expired_bindings",
           program |-> CleanupExpiredLocks(found, removed)] :
            found \in BOOLEAN, removed \in BOOLEAN}
    \cup {[op |-> "snapshot", program |-> SnapshotProgram]}

\* parking_lot::Mutex: free when no thread holds a guard of it
LockFree(l) == \A q \in Procs : l \notin Range(frame[q].held)

\* the lock or unlock operation thread p is at
Instruction(p) == frame[p].program[frame[p].count]

AtInstruction(p) == pc[p] = "locks" /\ frame[p].count <= Len(frame[p].program)

LockCall(p, call) ==
    /\ FirstIdle(p)
    /\ Goto(p, "locks", [IdleFrame EXCEPT !.op = call.op, !.program = call.program,
                                         !.count = 1])
    /\ UNCHANGED <<config, services, stores, tables, guards, clock, calls>>

\* Mutex::lock: the thread goes on when the mutex is free
LockAcquire(p) ==
    /\ AtInstruction(p)
    /\ Instruction(p)[1] = "lock"
    /\ LockFree(Instruction(p)[2])
    /\ Goto(p, "locks", [frame[p] EXCEPT !.held = Append(@, Instruction(p)[2]),
                                        !.count = @ + 1])
    /\ UNCHANGED <<config, services, stores, tables, guards, clock, calls>>

\* the guard is dropped
LockRelease(p) ==
    /\ AtInstruction(p)
    /\ Instruction(p)[1] = "unlock"
    /\ Goto(p, "locks",
            [frame[p] EXCEPT !.held = SelectSeq(@, LAMBDA h : h # Instruction(p)[2]),
                             !.count = @ + 1])
    /\ UNCHANGED <<config, services, stores, tables, guards, clock, calls>>

LockReturn(p) ==
    /\ pc[p] = "locks"
    /\ frame[p].count > Len(frame[p].program)
    /\ Goto(p, "idle", IdleFrame)
    /\ UNCHANGED <<config, services, stores, tables, guards, clock, calls>>

(***************************************************************************)
(* The SSE emitters of anthropic/handlers.rs: create_sse_stream (656-758), *)
(* create_sse_stream_with_guard (761-852), create_buffered_sse_stream      *)
(* (1523-1627) and create_buffered_sse_stream_with_guard (1630-1728).      *)
(* An emitter is a task: its frame holds the state tuple of stream::unfold *)
(* (finished, usage_recorded, guard, the context, log_ctx.response_events),*)
(* the item stream it last returned (inner), the frames the framework has  *)
(* written to the client (sent) and the record_usage calls made for the    *)
(* request (usage_records).                                                *)
(***************************************************************************)
MaxChunks == 2        \* upstream chunks of one response
MaxPings == 2         \* ping ticks during one response

\* context_usage_percentage is an f64: a percentage is held as its number of
\* 1/PercentUnits percent, half a token of the context window
PercentUnits == 4000
Percent(whole) == whole * PercentUnits
HalfPercent(halves) == halves * (PercentUnits \div 2)

CONTEXT_WINDOW_SIZE == 200000
I32_MAX == 2147483647

\* f64 as i32: the fractional part is dropped, the value saturates
f64_as_i32(numerator, denominator) ==
    IF numerator \div denominator > I32_MAX THEN I32_MAX
    ELSE numerator \div denominator

\* i32::max
i32_max(a, b) == IF a >= b THEN a ELSE b

\* percentage * CONTEXT_WINDOW_SIZE / 100.0 as i32
actual_input_tokens(percentage) ==
    f64_as_i32(percentage * (CONTEXT_WINDOW_SIZE \div 100), PercentUnits)

\* upstream events (kiro::model::events::Event)
KiroEvent(kind, stop, percentage, exception_type) ==
    [kind |-> kind, stop |-> stop, context_usage_percentage |-> percentage,
     exception_type |-> exception_type]

AssistantResponse == KiroEvent("AssistantResponse", FALSE, 0, "")
ToolUse(stop) == KiroEvent("ToolUse", stop, 0, "")
ContextUsage(percentage) == KiroEvent("ContextUsage", FALSE, percentage, "")
Exception(exception_type) == KiroEvent("Exception", FALSE, 0, exception_type)
Unknown == KiroEvent("Unknown", FALSE, 0, "")

\* the events one chunk completes in the decoder
SseChunks ==
    {<<>>, <<AssistantResponse>>, <<ContextUsage(Percent(50))>>, <<ToolUse(TRUE)>>,
     <<AssistantResponse, ToolUse(TRUE)>>}

\* an SSE event; origin stands for the payload: the chunk, the upstream event in
\* it and the position among the events translated from it
SseEvent(event, origin) == [event |-> event, data |-> [type |-> event, origin |-> origin]]

\* SseEvent::to_sse_string
to_sse_string(e) == <<"event: ", e.event, "\ndata: ", e.data, "\n\n">>

\* lines 749, 843, 1562, 1670
PingBytes == <<"event: ", "ping", "\ndata: ", [type |-> "ping", origin |-> <<>>], "\n\n">>

\* lines 615-620
events_to_sse_bytes(events) == [i \in 1..Len(events) |-> to_sse_string(events[i])]

\* StreamContext::process_kiro_event, by the event mapping table
process_kiro_event(event, origin) ==
    CASE event.kind = "AssistantResponse" ->
             <<SseEvent("content_block_delta", origin \o <<1>>)>>
      [] event.kind = "ToolUse" /\ ~event.stop ->
             <<SseEvent("content_block_delta", origin \o <<1>>)>>
      [] event.kind = "ToolUse" /\ event.stop ->
             <<SseEvent("content_block_delta", origin \o <<1>>),
               SseEvent("content_block_stop", origin \o <<2>>)>>
      [] OTHER -> <<>>

\* the local estimate of the input tokens the context is created with
EstimatedInputTokens == 1200

\* message_start: its data carries message.usage.input_tokens
MessageStart(input_tokens) ==
    [event |-> "message_start",
     data |-> [type |-> "message_start", origin |-> <<0, 0, 1>>,
               input_tokens |-> input_tokens]]

\* StreamContext::generate_initial_events
generate_initial_events ==
    <<MessageStart(EstimatedInputTokens), SseEvent("content_block_start", <<0, 0, 2>>)>>

\* StreamContext::generate_final_events, after chunks chunks
generate_final_events(chunks) ==
    <<SseEvent("message_delta", <<chunks + 1, 0, 1>>),
      SseEvent("message_stop", <<chunks + 1, 0, 2>>)>>

\* mutant: message_start keeps the local estimate
finish_with_estimate(buffer, chunks, context_input_tokens) ==
    <<MessageStart(EstimatedInputTokens), SseEvent("content_block_start", <<0, 0, 2>>)>>
        \o buffer \o generate_final_events(chunks)

\* BufferedStreamContext::finish_and_get_all_events: the initial events, with
\* the input_tokens of message_start set to the upstream figure if one came
finish_and_get_all_events(buffer, chunks, context_input_tokens) ==
    <<MessageStart(IF IsSome(context_input_tokens) THEN Unwrap(context_input_tokens)
                   ELSE EstimatedInputTokens),
      SseEvent("content_block_start", <<0, 0, 2>>)>>
        \o buffer \o generate_final_events(chunks)

\* the for loop over decoder.decode_iter(), lines 695-714 (1575-1587)
RECURSIVE ProcessChunk(_, _, _)
ProcessChunk(events, chunk_no, idx) ==
    IF idx > Len(events) THEN <<>>
    ELSE process_kiro_event(events[idx], <<chunk_no, idx>>)
             \o ProcessChunk(events, chunk_no, idx + 1)

\* the input tokens of the last ContextUsage event of a chunk, if any
RECURSIVE ContextInputTokens(_, _)
ContextInputTokens(events, before) ==
    IF events = <<>> THEN before
    ELSE ContextInputTokens(
             Tail(events),
             IF Head(events).kind = "ContextUsage"
             THEN Some(actual_input_tokens(Head(events).context_usage_percentage))
             ELSE before)

IsBuffered(op) ==
    op \in {"create_buffered_sse_stream", "create_buffered_sse_stream_with_guard"}

SseOps(with_guard) ==
    IF with_guard
    THEN {"create_sse_stream_with_guard", "create_buffered_sse_stream_with_guard"}
    ELSE {"create_sse_stream", "create_buffered_sse_stream"}

\* mutant: the buffered emitter sends a chunk's events as they come
BufferedChunkOutputEager(events) == events_to_sse_bytes(events)

\* lines 1588 and 1691: the loop goes on to the next chunk and sends nothing
BufferedChunkOutput(events) == <<>>

\* the body stream yields chunks until it ends (None) or a read fails with a
\* message (Some(Err(e)))
UpstreamOutcomes == {"end", "connection reset"}

\* the status of the log entry, lines 727 and 738: "success" or
\* format!("error: {}", e)
LogStatus(outcome) ==
    IF outcome = "end" THEN <<"success">> ELSE <<"error: ", outcome>>

\* mutant: the closure goes on selecting after it has finished
PollingAfterFinished(p) == pc[p] = "sse_poll" /\ frame[p].inner = <<>>

\* mutant: the next item stream is asked for while the last is not drained
InnerNeverAwaited(p) == TRUE

\* .flatten(), lines 755 and 1626: the closure runs again when the item stream
\* it returned is exhausted
InnerExhausted(p) == frame[p].inner = <<>>

Polling(p) == pc[p] = "sse_poll" /\ InnerExhausted(p) /\ ~frame[p].finished

SseFrame(op, guard) ==
    [IdleFrame EXCEPT !.op = op, !.guard = guard,
        !.inner = IF IsBuffered(op) THEN <<>>
                  ELSE events_to_sse_bytes(generate_initial_events)]

\* handle_stream_request (573-609) and handle_stream_request_buffered (1481-1514)
CreateSseStream(p, op) ==
    /\ FirstIdle(p)
    /\ calls < MaxCalls
    /\ calls' = calls + 1
    /\ Goto(p, "sse_poll", SseFrame(op, None))
    /\ UNCHANGED <<config, services, stores, tables, guards, clock>>

\* lines 775 and 1642: guard.activate(), then the guard moves into the state
CreateSseStreamWithGuard(p, op, stream_id, now) ==
    /\ FirstIdle(p)
    /\ stream_id \in DOMAIN guards
    /\ ~guards[stream_id].activated
    /\ active_streams' = activate_stream(active_streams, stream_id, now)
    /\ clock' = IF stream_id \in DOMAIN active_streams THEN now ELSE clock
    /\ guards' = MapInsert(guards, stream_id, StreamGuard(TRUE))
    /\ Goto(p, "sse_poll", SseFrame(op, Some(stream_id)))
    /\ UNCHANGED <<config, services, stores, bindings, concurrency, stats, next_stream_id, calls>>

\* guard.touch() where the emitter holds a guard
SseTouch(p, now) ==
    IF IsSome(frame[p].guard)
    THEN /\ active_streams' = touch_stream(active_streams, Unwrap(frame[p].guard), now)
         /\ clock' = IF Unwrap(frame[p].guard) \in DOMAIN active_streams
                     THEN now ELSE clock
    ELSE UNCHANGED <<active_streams, clock>>

\* Some(Ok(chunk)): lines 688-720, 791-816, 1569-1589, 1676-1691
SseChunk(p, chunk, now) ==
    /\ Polling(p)
    /\ frame[p].chunks < MaxChunks
    /\ SseTouch(p, now)
    /\ LET f == frame[p]
           events == ProcessChunk(chunk, f.chunks + 1, 1)
       IN  Goto(p, "sse_poll",
                [f EXCEPT !.chunks = @ + 1,
                    !.context_input_tokens = ContextInputTokens(chunk, @),
                    !.response_events = IF IsBuffered(f.op) THEN @ ELSE @ \o events,
                    !.buffer = IF IsBuffered(f.op) THEN @ \o events ELSE @,
                    !.inner = IF IsBuffered(f.op) THEN BufferedChunkOutput(events)
                              ELSE events_to_sse_bytes(events)])
    /\ UNCHANGED <<config, services, stores, bindings, concurrency, stats, next_stream_id, guards, calls>>

\* Some(Err(e)) and None: lines 721-743, 817-838, 1590-1619, 1692-1720; the two
\* differ in the status logged (outcome)
SseUpstreamEnd(p, outcome) ==
    /\ Polling(p)
    /\ LET f == frame[p]
           all_events == finish_and_get_all_events(f.buffer, f.chunks, f.context_input_tokens)
       IN  Goto(p, "sse_poll",
                [f EXCEPT !.finished = TRUE, !.path = outcome,
                    !.usage_recorded = IF IsBuffered(f.op) THEN @ ELSE TRUE,
                    !.usage_records =
                        IF IsBuffered(f.op) \/ ~f.usage_recorded THEN @ + 1 ELSE @,
                    !.log_entries =
                        IF IsBuffered(f.op) \/ ~f.usage_recorded
                        THEN Append(@, LogStatus(outcome)) ELSE @,
                    !.response_events = IF IsBuffered(f.op) THEN @ \o all_events ELSE @,
                    !.inner = IF IsBuffered(f.op) THEN events_to_sse_bytes(all_events)
                              ELSE events_to_sse_bytes(generate_final_events(f.chunks))])
    /\ UNCHANGED <<config, services, stores, tables, guards, clock, calls>>

\* ping_interval.tick(): lines 747-751, 841-845, 1560-1564, 1668-1672; the
\* timer fires at the instant now
SsePing(p, now) ==
    /\ Polling(p)
    /\ frame[p].pings < MaxPings
    /\ clock' = now
    /\ Goto(p, "sse_poll", [frame[p] EXCEPT !.pings = @ + 1, !.inner = <<PingBytes>>])
    /\ UNCHANGED <<config, services, stores, tables, guards, calls>>

\* the framework takes the next item of the flattened stream and writes it
SseYield(p) ==
    /\ pc[p] = "sse_poll"
    /\ frame[p].inner # <<>>
    /\ Goto(p, "sse_poll", [frame[p] EXCEPT !.sent = Append(@, Head(frame[p].inner)),
                                           !.inner = Tail(@)])
    /\ UNCHANGED <<config, services, stores, tables, guards, clock, calls>>

\* if finished { return None }: lines 679-681, 784-786, 1549-1551, 1660-1662
SseFinished(p) ==
    /\ pc[p] = "sse_poll"
    /\ InnerExhausted(p)
    /\ frame[p].finished
    /\ Goto(p, "sse_done", frame[p])
    /\ UNCHANGED <<config, services, stores, tables, guards, clock, calls>>

\* the client's transport is severed: the framework stops polling the body
ClientDisconnect(p) ==
    /\ pc[p] = "sse_poll"
    /\ Goto(p, "sse_severed", frame[p])
    /\ UNCHANGED <<config, services, stores, tables, guards, clock, calls>>

\* the body stream is dropped, its state with it; Drop for StreamGuard
\* (sticky.rs 625-631) deactivates the stream of a guard in it
SseDropped(p) ==
    /\ pc[p] \in {"sse_done", "sse_severed"}
    /\ IF IsSome(frame[p].guard)
       THEN /\ guards' = MapRemove(guards, Unwrap(frame[p].guard))
            /\ RemoveStream(p, "drop", Unwrap(frame[p].guard))
       ELSE /\ Goto(p, "idle", IdleFrame)
            /\ UNCHANGED <<config, services, stores, tables, guards, clock, calls>>

(***************************************************************************)
(* The select of the buffered emitter with its timer (lines 1553-1623).    *)
(* ping_due says that ping_interval.tick() is ready: a tokio interval is   *)
(* ready at once after its creation and again each time its period has     *)
(* passed.  The chunk reader is ready whenever the upstream has something. *)
(***************************************************************************)
\* mutant: the branches are polled in random order
SelectUnbiased(f) == TRUE

\* biased; (lines 1555-1557, 1666): the branches are polled in the order
\* written, so the chunk reader is looked at only when the tick is not ready
SelectBiased(f) == ~f.ping_due

\* handle_stream_request_buffered: interval(...) at line 1543
CreateBufferedSseStream(p) ==
    /\ FirstIdle(p)
    /\ calls < MaxCalls
    /\ calls' = calls + 1
    /\ Goto(p, "sse_poll",
            [SseFrame("create_buffered_sse_stream", None) EXCEPT !.ping_due = TRUE])
    /\ UNCHANGED <<config, services, stores, tables, guards, clock>>

\* PING_INTERVAL_SECS have passed since the last tick
PingTimerElapses(p) ==
    /\ pc[p] = "sse_poll"
    /\ IsBuffered(frame[p].op)
    /\ ~frame[p].finished
    /\ ~frame[p].ping_due
    /\ frame[p].pings < MaxPings
    /\ Goto(p, "sse_poll", [frame[p] EXCEPT !.ping_due = TRUE])
    /\ UNCHANGED <<config, services, stores, tables, guards, clock, calls>>

\* lines 1560-1564: the tick branch
BufferedPing(p) ==
    /\ Polling(p)
    /\ frame[p].ping_due
    /\ Goto(p, "sse_poll", [frame[p] EXCEPT !.pings = @ + 1, !.inner = <<PingBytes>>,
                                            !.ping_due = FALSE])
    /\ UNCHANGED <<config, services, stores, tables, guards, clock, calls>>

\* lines 1567-1589: the chunk branch, Some(Ok(chunk))
BufferedChunk(p, chunk) == SelectBiased(frame[p]) /\ SseChunk(p, chunk, clock)

\* lines 1590-1619: the chunk branch, Some(Err(e)) and None
BufferedUpstreamEnd(p, outcome) == SelectBiased(frame[p]) /\ SseUpstreamEnd(p, outcome)

\* what the task of the emitter and the framework polling it do
BufferedEmitterStep(p) ==
    \/ BufferedPing(p)
    \/ \E chunk \in SseChunks : BufferedChunk(p, chunk)
    \/ \E outcome \in UpstreamOutcomes : BufferedUpstreamEnd(p, outcome)
    \/ SseYield(p)
    \/ SseFinished(p)
    \/ SseDropped(p)

(***************************************************************************)
(* handle_non_stream_response (anthropic/handlers.rs 925-1100): the loop   *)
(* over the decoded events, one event a step, and the stop_reason.         *)
(***************************************************************************)
MaxEvents == 3        \* upstream events of one non-streamed response

NonStreamEvents ==
    {AssistantResponse, ToolUse(TRUE), ContextUsage(Percent(50)),
     ContextUsage(Percent(100)), ContextUsage(HalfPercent(85)),
     ContextUsage(Percent(50) + 1),
     Exception("ContentLengthExceededException"), Exception("ThrottlingException")}

RECURSIVE SeqsUpTo(_, _)
SeqsUpTo(S, n) ==
    IF n = 0 THEN {<<>>}
    ELSE SeqsUpTo(S, n - 1)
             \cup {Append(seq, x) : seq \in {t \in SeqsUpTo(S, n - 1) : Len(t) = n - 1}, x \in S}

\* the local estimates of the input tokens (token::count_all_tokens as i32)
InputTokenEstimates == {1200}

\* token::estimate_output_tokens of the assembled content: one token for each
\* event that brings content
RECURSIVE estimate_output_tokens(_)
estimate_output_tokens(events) ==
    IF events = <<>> THEN 0
    ELSE (IF Head(events).kind \in {"AssistantResponse", "ToolUse"} THEN 1 ELSE 0)
             + estimate_output_tokens(Tail(events))

\* mutant: the local estimate is reported whatever arrived
final_input_tokens_estimate_only(context_input_tokens, input_tokens) ==
    [token_source |-> "local(estimate)", final_input_tokens |-> input_tokens]

\* lines 1063-1066
final_input_tokens(context_input_tokens, input_tokens) ==
    IF IsSome(context_input_tokens)
    THEN [token_source |-> "upstream(contextUsageEvent)",
          final_input_tokens |-> Unwrap(context_input_tokens)]
    ELSE [token_source |-> "local(estimate)", final_input_tokens |-> input_tokens]

\* usage of the response body, lines 1085-1088
Usage(input_tokens, output_tokens) ==
    [input_tokens |-> input_tokens, output_tokens |-> output_tokens]

\* RequestLogEntry of a finished non-streamed request, lines 1092-1106
NonStreamLogEntry(input_tokens, output_tokens, token_source, api_key_id) ==
    [stream |-> FALSE, input_tokens |-> input_tokens, output_tokens |-> output_tokens,
     token_source |-> token_source, status |-> "success", api_key_id |-> api_key_id]

\* the requests one key is followed for
MaxRequests == 2

RequestCount(rows, key_id) ==
    LET matching == {i \in DOMAIN rows : rows[i].id = key_id}
    IN  IF matching = {} THEN 0 ELSE rows[CHOOSE i \in matching : TRUE].request_count

\* lines 973-1033: what one event does to has_tool_use, context_input_tokens
\* and stop_reason
NonStreamApply(f, event) ==
    CASE event.kind = "ToolUse" -> [f EXCEPT !.has_tool_use = TRUE]
      [] event.kind = "ContextUsage" ->
             [f EXCEPT !.context_input_tokens =
                           Some(actual_input_tokens(event.context_usage_percentage)),
                       !.stop_reason =
                           IF event.context_usage_percentage >= Percent(100)
                           THEN "model_context_window_exceeded" ELSE @]
      [] event.kind = "Exception"
             /\ event.exception_type = "ContentLengthExceededException" ->
             [f EXCEPT !.stop_reason = "max_tokens"]
      [] OTHER -> f

\* lines 953-967: the decoder is fed the body, the locals are initialised
HandleNonStreamResponse(p, events, input_tokens, auth_key_id) ==
    /\ FirstIdle(p)
    /\ RequestCount(api_keys, auth_key_id) < MaxRequests
    /\ Goto(p, "decode_iter",
            [IdleFrame EXCEPT !.op = "handle_non_stream_response", !.events = events,
                              !.input_tokens = input_tokens, !.key_id = auth_key_id,
                              !.count = 1, !.stop_reason = "end_turn"])
    /\ UNCHANGED <<config, services, stores, tables, guards, clock, calls>>

\* lines 969-1040: one turn of the loop
NonStreamEvent(p) ==
    /\ pc[p] = "decode_iter"
    /\ frame[p].count <= Len(frame[p].events)
    /\ Goto(p, "decode_iter",
            [NonStreamApply(frame[p], frame[p].events[frame[p].count])
                EXCEPT !.count = @ + 1])
    /\ UNCHANGED <<config, services, stores, tables, guards, clock, calls>>

\* lines 1042-1107: the stop_reason, the token figures, the usage recorded on
\* the key, the response body and the log entry
NonStreamStopReason(p) ==
    /\ pc[p] = "decode_iter"
    /\ frame[p].count > Len(frame[p].events)
    /\ LET output_tokens == estimate_output_tokens(frame[p].events)
           final == final_input_tokens(frame[p].context_input_tokens,
                                       frame[p].input_tokens)
       IN  /\ api_keys' = record_usage(api_keys, frame[p].key_id,
                                       i32_max(final.final_input_tokens, 0),
                                       i32_max(output_tokens, 0), clock)
           /\ Goto(p, "non_stream_return",
                   [frame[p] EXCEPT
                       !.stop_reason =
                           IF frame[p].has_tool_use /\ @ = "end_turn"
                           THEN "tool_use" ELSE @,
                       !.token_source = final.token_source,
                       !.usage = Some(Usage(final.final_input_tokens, output_tokens)),
                       !.log_entries =
                           Append(@, NonStreamLogEntry(final.final_input_tokens,
                                                       output_tokens, final.token_source,
                                                       frame[p].key_id))])
    /\ UNCHANGED <<config, services, uuids, stored_credentials, tables, guards, clock, calls>>

NonStreamReturn(p) ==
    /\ pc[p] = "non_stream_return"
    /\ Goto(p, "idle", IdleFrame)
    /\ UNCHANGED <<config, services, stores, tables, guards, clock, calls>>

(***************************************************************************)
(* post_messages (src/src/anthropic/handlers.rs, lines 269-570): the       *)
(* routing decision, the one provider call and the mapping of its error to *)
(* a response.  A header value is its bytes and whether they are all       *)
(* visible ASCII; an error message is the sequence of its parts.           *)
(***************************************************************************)
HeaderValue(bytes, visible_ascii) == [bytes |-> bytes, visible_ascii |-> visible_ascii]

\* HeaderValue::to_str().ok()
to_str(value) == IF value.visible_ascii THEN Some(value.bytes) ELSE None

\* headers.get("x-user-id"): no header, an empty one, a name, bytes that are no text
XUserIdHeaders ==
    {None, Some(HeaderValue("", TRUE)), Some(HeaderValue("user-1", TRUE)),
     Some(HeaderValue("user-2", TRUE)), Some(HeaderValue("user-<C3 A9>", FALSE))}

LoadBalancingModes == {"priority", "balanced", "sticky"}

\* payload.metadata and its user_id
Metadatas == {None, Some([user_id |-> None]), Some([user_id |-> Some("session-1")])}

\* the key the middleware authenticated
AuthenticatedKeys ==
    {AuthenticatedApiKey(id, mode, c) :
        id \in {Uuid(1), Uuid(3)}, mode \in RoutingModes,
        c \in {None, Some(1), Some(2)}}

RequestIdentity(api_key, session_id) == [api_key |-> api_key, session_id |-> session_id]

\* enum RouteDecision, lines 39-47
RouteFixed(credential_id) ==
    [kind |-> "Fixed", credential_id |-> Some(credential_id), identity |-> None]
RouteSticky(identity) ==
    [kind |-> "Sticky", credential_id |-> None, identity |-> Some(identity)]
RouteGlobal == [kind |-> "Global", credential_id |-> None, identity |-> None]

\* mutant: the sticky identity is the user id alone
StickyIdentityUserOnly(key_id, user_id) == user_id

\* format!("{}:{}", auth.key_id, user_id)
StickyIdentity(key_id, user_id) == key_id \o ":" \o user_id

\* resolve_route, lines 55-92; x_user_id is headers.get("x-user-id"),
\* sticky_tracker is state.sticky_tracker.is_some()
resolve_route(auth, x_user_id, sticky_tracker, load_balancing_mode, metadata) ==
    LET is_sticky == sticky_tracker /\ load_balancing_mode = "sticky"
        user_id == IF IsSome(x_user_id) THEN to_str(Unwrap(x_user_id)) ELSE None
    IN  IF auth.routing_mode = Fixed /\ IsSome(auth.credential_id)
        THEN RouteFixed(Unwrap(auth.credential_id))
        ELSE IF is_sticky /\ IsSome(user_id) /\ Unwrap(user_id) # ""
        THEN RouteSticky(RequestIdentity(
                 StickyIdentity(auth.key_id, Unwrap(user_id)),
                 IF IsSome(metadata) THEN Unwrap(metadata).user_id ELSE None))
        ELSE RouteGlobal

\* an upstream error: err.to_string() as its parts
ProviderErrors ==
    {<<"upstream 400: ", "CONTENT_LENGTH_EXCEEDS_THRESHOLD">>,
     <<"upstream 400: ", "Input is too long", " for the model">>,
     <<"upstream 500: ", "internal failure">>,
     <<"no credential available">>}

\* str::contains for a message given by its parts
contains(err_str, pattern) == \E i \in DOMAIN err_str : err_str[i] = pattern

ErrorResponse(status, error_type, retry_after) ==
    [status |-> status, error_type |-> error_type, retry_after |-> retry_after]

\* mutant: every upstream error is a 502
map_provider_error_always_502(err) == ErrorResponse(502, "api_error", None)

\* the error a provider call returns, as the handler keeps it
ProviderError(e) == [kind |-> "Error", retry_after_secs |-> None, error |-> Some(e)]

\* map_provider_error, lines 95-132
map_provider_error(err) ==
    IF contains(err, "CONTENT_LENGTH_EXCEEDS_THRESHOLD")
    THEN ErrorResponse(400, "invalid_request_error", None)
    ELSE IF contains(err, "Input is too long")
    THEN ErrorResponse(400, "invalid_request_error", None)
    ELSE ErrorResponse(502, "api_error", None)

\* enum StickyError
StickyAllFull(retry_after_secs) ==
    [kind |-> "AllFull", retry_after_secs |-> Some(retry_after_secs), error |-> None]
StickyNoTracker == [kind |-> "NoTracker", retry_after_secs |-> None, error |-> None]
StickyApiError(e) == [kind |-> "ApiError", retry_after_secs |-> None, error |-> Some(e)]

StickyErrors ==
    {StickyAllFull(RetryAfterSecs(x)) : x \in RandomF64s}
        \cup {StickyNoTracker} \cup {StickyApiError(e) : e \in ProviderErrors}

\* f64::ceil() as u64 of a retry_after_secs: the least whole number not below it
CeilAsU64(x) == (x.eighths + 7) \div 8

\* map_sticky_error, lines 135-159
map_sticky_error(err) ==
    CASE err.kind = "AllFull" ->
             ErrorResponse(429, "overloaded_error",
                           Some(CeilAsU64(Unwrap(err.retry_after_secs))))
      [] err.kind = "NoTracker" -> ErrorResponse(500, "internal_error", None)
      [] OTHER -> map_provider_error(Unwrap(err.error))

\* the provider call of a route: the streamed sticky call goes through the
\* tracker and fails with a StickyError, every other call with a provider error
ProviderCall(route, stream) ==
    IF route.kind = "Sticky" /\ stream THEN "call_api_stream_sticky"
    ELSE IF route.kind = "Fixed" /\ stream THEN "call_api_stream_fixed"
    ELSE IF stream THEN "call_api_stream"
    ELSE "call_api"

ConversionResults == {"Ok", "UnsupportedModel", "EmptyMessages"}

\* lines 269-412: up to the routing decision
PostMessages(p, kiro_provider, auth, x_user_id, sticky_tracker, load_balancing_mode, metadata, stream, web_search, conversion) ==
    /\ FirstIdle(p)
    /\ LET f == [IdleFrame EXCEPT !.op = "post_messages", !.authed = Some(auth),
                                  !.kiro_provider = kiro_provider,
                                  !.x_user_id = x_user_id,
                                  !.is_sticky = sticky_tracker
                                                  /\ load_balancing_mode = "sticky",
                                  !.stream = stream]
           route == resolve_route(auth, x_user_id, sticky_tracker,
                                  load_balancing_mode, metadata)
       IN  IF ~kiro_provider
           THEN Goto(p, "response",
                     [f EXCEPT !.response =
                         Some(ErrorResponse(503, "service_unavailable", None))])
           ELSE IF web_search
           THEN Goto(p, "websearch", [f EXCEPT !.decision = Some(route)])
           ELSE IF conversion # "Ok"
           THEN Goto(p, "response",
                     [f EXCEPT !.response =
                         Some(ErrorResponse(400, "invalid_request_error", None))])
           ELSE Goto(p, "call_provider", [f EXCEPT !.decision = Some(route)])
    /\ UNCHANGED <<config, services, stores, tables, guards, clock, calls>>

\* the provider call fails: lines 417-423, 585-590, 869-874, 903-908
ProviderFails(p, err) ==
    /\ pc[p] = "call_provider"
    /\ ProviderCall(Unwrap(frame[p].decision), frame[p].stream)
           # "call_api_stream_sticky"
    /\ Goto(p, "response",
            [frame[p] EXCEPT !.api_calls = @ + 1,
                             !.error = Some(ProviderError(err)),
                             !.response = Some(map_provider_error(err))])
    /\ UNCHANGED <<config, services, stores, tables, guards, clock, calls>>

\* the streamed sticky call fails: lines 466-472
StickyCallFails(p, err) ==
    /\ pc[p] = "call_provider"
    /\ ProviderCall(Unwrap(frame[p].decision), frame[p].stream)
           = "call_api_stream_sticky"
    /\ Goto(p, "response",
            [frame[p] EXCEPT !.api_calls = @ + 1,
                             !.error = Some(err),
                             !.response = Some(map_sticky_error(err))])
    /\ UNCHANGED <<config, services, stores, tables, guards, clock, calls>>

\* the provider call succeeds: the response is built from the upstream body
ProviderSucceeds(p) ==
    /\ pc[p] = "call_provider"
    /\ Goto(p, "response",
            [frame[p] EXCEPT !.api_calls = @ + 1,
                             !.response = Some(ErrorResponse(200, "", None))])
    /\ UNCHANGED <<config, services, stores, tables, guards, clock, calls>>

\* the response is returned, or the request is handed to the web search handler
PostMessagesReturn(p) ==
    /\ pc[p] \in {"response", "websearch"}
    /\ Goto(p, "idle", IdleFrame)
    /\ UNCHANGED <<config, services, stores, tables, guards, clock, calls>>

(***************************************************************************)
(* The methods of ApiKeyManager as actions.  Each method holds the         *)
(* connection mutex from its first statement to its return, so a call is   *)
(* one step; its result is kept in the caller's frame until it returns.    *)
(***************************************************************************)
MaxUuids == 3         \* UUIDs drawn in one behaviour

\* the credential_id values of the requests: two small ids and one above i64::MAX
ApiCredentialIds == {1, 2, I64_MAX + 1}
CredentialIdParams == {None} \cup {Some(c) : c \in ApiCredentialIds}

\* the configured key, a key no row holds, and the keys create_key can make
IncomingKeys ==
    {InitialKey, "sk-unknown"} \cup {"sk-kiro-rs-" \o Uuid(n) : n \in 1..MaxUuids}
KeyIds == {Uuid(n) : n \in 1..MaxUuids}

CreateKey(p, name, routing_mode, credential_id) ==
    /\ FirstIdle(p)
    /\ uuids + 2 <= MaxUuids
    /\ LET r == create_key(api_keys, name, routing_mode, credential_id, clock,
                           Uuid(uuids + 1), Uuid(uuids + 2))
       IN  /\ api_keys' = r.rows
           /\ Goto(p, "api_return",
                   [IdleFrame EXCEPT !.op = "create_key", !.item = Some(r.item)])
    /\ uuids' = uuids + 2
    /\ UNCHANGED <<config, services, tables, guards, clock, calls, stored_credentials>>

SetRouting(p, id, routing_mode, credential_id) ==
    /\ FirstIdle(p)
    /\ LET r == set_routing(api_keys, id, routing_mode, credential_id)
       IN  /\ api_keys' = r.rows
           /\ Goto(p, "api_return",
                   [IdleFrame EXCEPT !.op = "set_routing", !.key_id = id,
                                     !.changed = r.changed])
    /\ UNCHANGED <<config, services, tables, guards, clock, calls, uuids, stored_credentials>>

ResetRoutingForCredential(p, credential_id) ==
    /\ FirstIdle(p)
    /\ api_keys' = reset_routing_for_credential(api_keys, credential_id)
    /\ Goto(p, "api_return",
            [IdleFrame EXCEPT !.op = "reset_routing_for_credential",
                              !.credential_id = Some(credential_id)])
    /\ UNCHANGED <<config, services, tables, guards, clock, calls, uuids, stored_credentials>>

SetEnabled(p, id, enabled) ==
    /\ FirstIdle(p)
    /\ LET r == set_enabled(api_keys, id, enabled)
       IN  /\ api_keys' = r.rows
           /\ Goto(p, "api_return",
                   [IdleFrame EXCEPT !.op = "set_enabled", !.key_id = id,
                                     !.changed = r.changed])
    /\ UNCHANGED <<config, services, tables, guards, clock, calls, uuids, stored_credentials>>

DeleteKey(p, id) ==
    /\ FirstIdle(p)
    /\ LET r == delete_key(api_keys, id)
       IN  /\ api_keys' = r.rows
           /\ Goto(p, "api_return",
                   [IdleFrame EXCEPT !.op = "delete_key", !.key_id = id,
                                     !.changed = r.changed])
    /\ UNCHANGED <<config, services, tables, guards, clock, calls, uuids, stored_credentials>>

List(p) ==
    /\ FirstIdle(p)
    /\ Goto(p, "api_return",
            [IdleFrame EXCEPT !.op = "list", !.listed = list(api_keys)])
    /\ UNCHANGED <<config, services, stores, tables, guards, clock, calls>>

\* auth_middleware, anthropic/middleware.rs lines 54-73; key is what
\* auth::extract_api_key found in the request
AuthMiddleware(p, key) ==
    /\ FirstIdle(p)
    /\ IF ~IsSome(key)
       THEN /\ Goto(p, "unauthorized",
                    [IdleFrame EXCEPT !.op = "auth_middleware", !.status = 401])
            /\ UNCHANGED api_keys
       ELSE LET r == authenticate(api_keys, Unwrap(key), clock)
            IN  /\ api_keys' = r.rows
                /\ IF ~IsSome(r.result)
                   THEN Goto(p, "unauthorized",
                             [IdleFrame EXCEPT !.op = "auth_middleware",
                                               !.incoming = key,
                                               !.status = 401])
                   ELSE Goto(p, "handler",
                             [IdleFrame EXCEPT !.op = "auth_middleware",
                                               !.incoming = key,
                                               !.authed = r.result])
    /\ UNCHANGED <<config, services, tables, guards, clock, calls, uuids, stored_credentials>>

\* the call returns, or the response is sent
ApiReturn(p) ==
    /\ pc[p] \in {"api_return", "unauthorized", "handler"}
    /\ Goto(p, "idle", IdleFrame)
    /\ UNCHANGED <<config, services, stores, tables, guards, clock, calls>>

\* a credential is added to the credential store
AddCredential(credential_id) ==
    /\ credential_id \notin stored_credentials
    /\ stored_credentials' = stored_credentials \cup {credential_id}
    /\ UNCHANGED <<config, services, tables, guards, clock, calls, pc, frame, api_keys, uuids>>

\* a credential is deleted: it leaves the credential store and the keys fixed
\* to it are reset
DeleteCredential(p, credential_id) ==
    /\ FirstIdle(p)
    /\ credential_id \in stored_credentials
    /\ stored_credentials' = stored_credentials \ {credential_id}
    /\ api_keys' = reset_routing_for_credential(api_keys, credential_id)
    /\ Goto(p, "api_return",
            [IdleFrame EXCEPT !.op = "delete_credential",
                              !.credential_id = Some(credential_id)])
    /\ UNCHANGED <<config, services, tables, guards, clock, calls, uuids>>

(***************************************************************************)
(* Specifications.                                                         *)
(***************************************************************************)
IssuedIds == 1..(next_stream_id - 1)

\* the steps inside try_acquire, for the threads in P
TryAcquireSteps(P, wrap) ==
    \/ \E p \in P : TryAcquireLocked(p)
    \/ \E p \in P : TryAcquireRemoveBinding(p)
    \/ \E p \in P : TryAcquireCountUnbind(p)
    \/ \E p \in P : TryAcquireRelocked(p)
    \/ \E p \in P : ReserveIncrement(p)
    \/ \E p \in P : TryAcquireUpdateBinding(p)
    \/ \E p \in P : TryAcquireCountStat(p, wrap)

CleanupZombiesSteps(P, max_clock) ==
    \/ \E p \in P, now \in Instants(max_clock) : CleanupZombiesScan(p, now)
    \/ \E p \in P : CleanupZombiesRemove(p)
    \/ \E p \in P, sid \in IssuedIds : CleanupZombiesDecrement(p, sid)

\* Spec: the tracker called directly, as the tests do, from concurrent threads
Next ==
    \/ \E p \in Procs, k \in Keys, av \in RaceLists, now \in Instants(MaxClock) :
           TryAcquireBegin(p, k, av, now, MaxCalls)
    \/ TryAcquireSteps(Procs, FALSE)
    \/ \E sid \in IssuedIds, now \in Instants(MaxClock) : ActivateStream(sid, now)
    \/ \E sid \in IssuedIds, now \in Instants(MaxClock) : TouchStream(sid, now)
    \/ \E p \in Procs, sid \in IssuedIds : CancelReservation(p, sid)
    \/ \E p \in Procs, sid \in IssuedIds : DeactivateStream(p, sid)
    \/ \E p \in Procs : ReleaseDecrement(p)
    \/ CleanupZombiesSteps(Procs, MaxClock)

Spec == Init /\ [][Next]_vars

\* RaceSpec: more concurrent calls, no time passing
RaceNext ==
    \/ \E p \in Procs, k \in Keys, av \in RaceLists :
           TryAcquireBegin(p, k, av, clock, RaceMaxCalls)
    \/ TryAcquireSteps(Procs, FALSE)
    \/ \E p \in Procs, sid \in IssuedIds : DeactivateStream(p, sid)
    \/ \E p \in Procs : ReleaseDecrement(p)

RaceSpec == Init /\ [][RaceNext]_vars

\* GuardSpec: every stream id is wrapped in a StreamGuard, as the request path does
GuardNext ==
    \/ \E p \in Procs, k \in Keys, av \in RaceLists, now \in Instants(MaxClock) :
           TryAcquireBegin(p, k, av, now, MaxCalls)
    \/ TryAcquireSteps(Procs, TRUE)
    \/ \E sid \in IssuedIds, now \in Instants(MaxClock) : GuardActivate(sid, now)
    \/ \E sid \in IssuedIds, now \in Instants(MaxClock) : GuardTouch(sid, now)
    \/ \E p \in Procs, sid \in IssuedIds : GuardDrop(p, sid)
    \/ \E p \in Procs : ReleaseDecrement(p)
    \/ CleanupZombiesSteps(Procs, MaxClock)

GuardSpec == Init /\ [][GuardNext]_vars

\* ReleaseSpec: the four ways a reservation is released, racing for the same
\* stream ids
ReleaseNext ==
    \/ \E p \in Procs, k \in Keys, av \in RaceLists, now \in Instants(MaxClock) :
           TryAcquireBegin(p, k, av, now, MaxCalls)
    \/ TryAcquireSteps(Procs, TRUE)
    \/ \E sid \in IssuedIds, now \in Instants(MaxClock) : GuardActivate(sid, now)
    \/ \E p \in Procs, sid \in IssuedIds : GuardDrop(p, sid)
    \/ \E p \in Procs, sid \in IssuedIds : CancelReservation(p, sid)
    \/ \E p \in Procs, sid \in IssuedIds : DeactivateStream(p, sid)
    \/ \E p \in Procs : ReleaseDecrement(p)
    \/ CleanupZombiesSteps(Procs, MaxClock)

ReleaseSpec == Init /\ [][ReleaseNext]_vars

\* SeqSpec: one thread, every call runs to its end before the next starts
SeqProcs == {1}

SeqNext ==
    \/ \E p \in SeqProcs, k \in Keys, av \in AvailableLists, now \in Instants(MaxClock) :
           TryAcquireBegin(p, k, av, now, SeqMaxCalls)
    \/ TryAcquireSteps(SeqProcs, FALSE)
    \/ \E sid \in IssuedIds, now \in Instants(MaxClock) :
           pc[1] = "idle" /\ ActivateStream(sid, now)
    \/ \E sid \in IssuedIds, now \in Instants(MaxClock) :
           pc[1] = "idle" /\ TouchStream(sid, now)
    \/ \E p \in SeqProcs, sid \in IssuedIds : CancelReservation(p, sid)
    \/ \E p \in SeqProcs, sid \in IssuedIds : DeactivateStream(p, sid)
    \/ \E p \in SeqProcs : ReleaseDecrement(p)
    \/ CleanupZombiesSteps(SeqProcs, MaxClock)

SeqSpec == Init /\ [][SeqNext]_vars

(***************************************************************************)
(* select_best_credential_locked (lines 465-507) called on its own, on     *)
(* every table of counts and every list of distinct credentials.           *)
(***************************************************************************)
MaxSelectLimit == 4   \* the largest max_concurrent_per_credential selected with
SelectCreds == {1, 2, 3}

\* the lists of distinct credentials
SelectLists ==
    {l \in SeqsUpTo(SelectCreds, 3) : \A i, j \in DOMAIN l : i # j => l[i] # l[j]}

\* concurrency tables: a credential with streams has an entry, held by one key
SelectTables ==
    {[c \in {d \in SelectCreds : n[d] > 0} |->
         CredentialConcurrency(n[c], [k \in {"key-a"} |-> n[c]])] :
     n \in [SelectCreds -> 0..MaxSelectLimit]}

SelectBestCredential(p, conc, available, max) ==
    /\ FirstIdle(p)
    /\ Goto(p, "selected",
            [IdleFrame EXCEPT !.op = "select_best_credential_locked",
                              !.conc = conc, !.available = available, !.max = max,
                              !.credential_id =
                                  select_best_credential_locked(conc, available, max)])
    /\ UNCHANGED <<config, services, stores, tables, guards, clock, calls>>

SelectReturn(p) ==
    /\ pc[p] = "selected"
    /\ Goto(p, "idle", IdleFrame)
    /\ UNCHANGED <<config, services, stores, tables, guards, clock, calls>>

SelectNext ==
    \/ \E p \in SeqProcs, conc \in SelectTables, available \in SelectLists,
             max \in 1..MaxSelectLimit :
           SelectBestCredential(p, conc, available, max)
    \/ \E p \in SeqProcs : SelectReturn(p)

SelectSpec == Init /\ [][SelectNext]_vars

CleanupExpiredSteps(P, max_clock) ==
    \/ \E p \in P, now \in Instants(max_clock) : CleanupExpiredScan(p, now)
    \/ \E p \in P : CleanupExpiredActiveKeys(p)
    \/ \E p \in P : CleanupExpiredRemove(p)
    \/ \E p \in P : CleanupExpiredCount(p)

SseSteps(P, chunk_set, max_clock) ==
    \/ \E p \in P, chunk \in chunk_set, now \in Instants(max_clock) : SseChunk(p, chunk, now)
    \/ \E p \in P, outcome \in UpstreamOutcomes : SseUpstreamEnd(p, outcome)
    \/ \E p \in P, now \in Instants(max_clock) : SsePing(p, now)
    \/ \E p \in P : SseYield(p)
    \/ \E p \in P : SseFinished(p)
    \/ \E p \in P : ClientDisconnect(p)
    \/ \E p \in P : SseDropped(p)

\* SseSpec: the emitters of the routes without a guard, one response at a time
SseNext ==
    \/ \E p \in SeqProcs, op \in SseOps(FALSE) : CreateSseStream(p, op)
    \/ SseSteps(SeqProcs, SseChunks, 0)

SseSpec == Init /\ [][SseNext]_vars

(***************************************************************************)
(* The request log (src/src/request_log.rs): a VecDeque behind a mutex,    *)
(* so push and entries_since are one step each.                            *)
(***************************************************************************)
MAX_LOG_ENTRIES == 3      \* 200 in request_log.rs line 6, scaled
\* entries pushed in one behaviour: enough to evict two
MaxPushes == MAX_LOG_ENTRIES + 2
LogStatuses == {"success", "error: connection reset"}

\* the fields of a RequestLogEntry that tell entries apart
RequestLogEntry(id, status) == [id |-> id, status |-> status]

\* mutant: a full log drops the entry pushed last
push_evicting_newest(log, entry) ==
    IF Len(log) >= MAX_LOG_ENTRIES
    THEN Append(SubSeq(log, 1, Len(log) - 1), entry)
    ELSE Append(log, entry)

\* lines 37-43
push(log, entry) ==
    IF Len(log) >= MAX_LOG_ENTRIES
    THEN Append(Tail(log), entry)
    ELSE Append(log, entry)

\* entries.iter().position(|e| e.id == id): 0 stands for None
position(log, id) ==
    LET found == {i \in DOMAIN log : log[i].id = id}
    IN  IF found = {} THEN 0
        ELSE CHOOSE i \in found : \A j \in found : i <= j

\* mutant: the entry with the id is returned too
entries_since_inclusive(log, since_id) ==
    IF IsSome(since_id) /\ position(log, Unwrap(since_id)) # 0
    THEN SubSeq(log, position(log, Unwrap(since_id)), Len(log))
    ELSE log

\* lines 45-57
entries_since(log, since_id) ==
    IF IsSome(since_id)
    THEN LET pos == position(log, Unwrap(since_id))
         IN  IF pos # 0 THEN SubSeq(log, pos + 1, Len(log)) ELSE log
    ELSE log

\* log.push(RequestLogEntry { id: Uuid::new_v4().to_string(), .. }):
\* handlers.rs 636-650 and 1092-1106
RequestLogPush(status) ==
    /\ Len(pushed) < MaxPushes
    /\ LET entry == RequestLogEntry(Uuid(uuids + 1), status)
       IN  /\ entries' = push(entries, entry)
           /\ pushed' = Append(pushed, entry)
    /\ uuids' = uuids + 1
    /\ UNCHANGED <<config, sessions, device_auth, added, api_keys, stored_credentials,
                   tables, guards, clock, calls, pc, frame>>

\* the ids a reader of the log may ask for: None, the id of any entry pushed
\* or to be pushed, and an id no entry has
SinceIds ==
    {None, Some("no-such-id")} \cup {Some(Uuid(n)) : n \in 1..(MaxPushes + 2)}

\* entries_since(since_id), the result in listed
EntriesSince(p, since_id) ==
    /\ FirstIdle(p)
    /\ Goto(p, "log_listed",
            [IdleFrame EXCEPT !.op = "entries_since", !.since_id = since_id,
                              !.listed = entries_since(entries, since_id)])
    /\ UNCHANGED <<config, services, stores, tables, guards, clock, calls>>

\* the caller has the result
EntriesSinceReturn(p) ==
    /\ pc[p] = "log_listed"
    /\ Goto(p, "idle", IdleFrame)
    /\ UNCHANGED <<config, services, stores, tables, guards, clock, calls>>

RequestLogNext ==
    \/ \E status \in LogStatuses : RequestLogPush(status)
    \/ \E p \in SeqProcs, since_id \in SinceIds : EntriesSince(p, since_id)
    \/ \E p \in SeqProcs : EntriesSinceReturn(p)

RequestLogSpec == Init /\ [][RequestLogNext]_vars

(***************************************************************************)
(* The device-flow sessions of the OAuth pages (src/src/kiro_oauth_web.rs).*)
(* A session is kept in a map behind a mutex; check_status reads it under  *)
(* the lock, polls the OIDC service and stores a credential without the    *)
(* lock, and takes the lock again to write the session back.  The OIDC     *)
(* service holds, per device code, whether the user has decided, and       *)
(* issues the token of an approved code once.                              *)
(***************************************************************************)
MaxSessions == 1          \* sessions started in one behaviour
OAuthMaxCalls == 3        \* check_status calls in one behaviour

\* the fields of a WebAuthSession that check_status writes
WebAuthSession(status, error, credential_id) ==
    [status |-> status, error |-> error, credential_id |-> credential_id]

\* start_auth (130-199) and start_auth_json (201-296): the device
\* authorization is started and the session inserted as Pending
StartAuth ==
    /\ Cardinality(DOMAIN sessions) < MaxSessions
    /\ LET state_id == Uuid(uuids + 1)
       IN  /\ sessions' = MapInsert(sessions, state_id, WebAuthSession("Pending", None, None))
           /\ device_auth' = MapInsert(device_auth, state_id, "authorization_pending")
           /\ added' = MapInsert(added, state_id, {})
    /\ uuids' = uuids + 1
    /\ UNCHANGED <<config, entries, pushed, api_keys, stored_credentials, tables, guards,
                   clock, calls, pc, frame>>

\* the user approves or denies the device at the verification page
UserDecides(state_id, decision) ==
    /\ state_id \in DOMAIN device_auth
    /\ device_auth[state_id] = "authorization_pending"
    /\ device_auth' = [device_auth EXCEPT ![state_id] = decision]
    /\ UNCHANGED <<config, entries, pushed, sessions, added, stores, tables, guards,
                   clock, calls, pc, frame>>

\* lines 302-333: the session is read under the lock (an unknown state is
\* answered 404 and changes nothing); a Pending session that has timed out,
\* or for which no HTTP client can be built, fails, else it is polled
CheckStatusBegin(p, state_id, way) ==
    /\ FirstIdle(p)
    /\ calls < OAuthMaxCalls
    /\ calls' = calls + 1
    /\ state_id \in DOMAIN sessions
    /\ LET current == sessions[state_id]
           f == [IdleFrame EXCEPT !.op = "check_status", !.state = state_id]
       IN  IF current.status # "Pending"
           THEN Goto(p, "store_session", [f EXCEPT !.next = Some(current)])
           ELSE IF way = "poll"
           THEN Goto(p, "poll_device_token", [f EXCEPT !.next = Some(current)])
           ELSE Goto(p, "store_session",
                     [f EXCEPT !.next = Some([current EXCEPT !.status = "Failed",
                                                             !.error = Some(way)])])
    /\ UNCHANGED <<config, services, stores, tables, guards, clock>>

\* poll_device_token (702-753) as the OIDC service answers it
PollResult(authorization, sent) ==
    IF ~sent THEN "Failed"
    ELSE CASE authorization = "authorization_pending" -> "Pending"
           [] authorization = "approved" -> "Token"
           [] OTHER -> "Failed"

\* lines 335-344 and 374-377: the poll and what it does to next
CheckStatusPoll(p, sent) ==
    /\ pc[p] = "poll_device_token"
    /\ LET result == PollResult(device_auth[frame[p].state], sent)
           next == Unwrap(frame[p].next)
       IN  /\ device_auth' = IF result = "Token"
                             THEN [device_auth EXCEPT ![frame[p].state] = "redeemed"]
                             ELSE device_auth
           /\ CASE result = "Token" -> Goto(p, "add_credential", frame[p])
                [] result = "Pending" -> Goto(p, "store_session", frame[p])
                [] OTHER ->
                       Goto(p, "store_session",
                            [frame[p] EXCEPT !.next = Some([next EXCEPT !.status = "Failed",
                                                         !.error = Some("token error")])])
    /\ UNCHANGED <<config, entries, pushed, sessions, added, stores, tables, guards,
                   clock, calls>>

\* lines 347-372: add_credential and its outcome
CheckStatusAddCredential(p, ok) ==
    /\ pc[p] = "add_credential"
    /\ LET next == Unwrap(frame[p].next)
           credential_id == Cardinality(stored_credentials) + 1
       IN  IF ok
           THEN /\ stored_credentials' = stored_credentials \cup {credential_id}
                /\ added' = [added EXCEPT ![frame[p].state] = @ \cup {credential_id}]
                /\ Goto(p, "store_session",
                        [frame[p] EXCEPT !.next =
                            Some([next EXCEPT !.status = "Success",
                                              !.credential_id = Some(credential_id)])])
           ELSE /\ UNCHANGED <<stored_credentials, added>>
                /\ Goto(p, "store_session",
                        [frame[p] EXCEPT !.next =
                            Some([next EXCEPT !.status = "Failed",
                                              !.error = Some("add_credential failed")])])
    /\ UNCHANGED <<config, entries, pushed, sessions, device_auth, api_keys, uuids,
                   tables, guards, clock, calls>>

\* lines 328-329 and 384-387: next is written back under the lock, then the
\* response is built from it
CheckStatusStore(p) ==
    /\ pc[p] = "store_session"
    /\ sessions' = MapInsert(sessions, frame[p].state, Unwrap(frame[p].next))
    /\ Goto(p, "idle", IdleFrame)
    /\ UNCHANGED <<config, entries, pushed, device_auth, added, stores, tables, guards,
                   clock, calls>>

OAuthNext ==
    \/ StartAuth
    \/ \E state_id \in DOMAIN device_auth, decision \in {"approved", "denied"} :
           UserDecides(state_id, decision)
    \/ \E p \in Procs, state_id \in DOMAIN sessions,
             way \in {"poll", "authentication timed out", "no http client"} :
           CheckStatusBegin(p, state_id, way)
    \/ \E p \in Procs, sent \in BOOLEAN : CheckStatusPoll(p, sent)
    \/ \E p \in Procs, ok \in BOOLEAN : CheckStatusAddCredential(p, ok)
    \/ \E p \in Procs : CheckStatusStore(p)

OAuthSpec == Init /\ [][OAuthNext]_vars

\* PairSpec: an incremental and a buffered emitter are given the same upstream
\* body (the chunks in events) and run side by side to their ends
UpstreamBodies == SeqsUpTo(SseChunks, MaxChunks)

PairMaxCalls == 1     \* pairs of responses in one behaviour of PairSpec

CreateSsePair(body) ==
    /\ \A p \in Procs : pc[p] = "idle"
    /\ calls < PairMaxCalls
    /\ calls' = calls + 1
    /\ pc' = [p \in Procs |-> "sse_poll"]
    /\ frame' = [p \in Procs |->
                    [SseFrame(IF p = 1 THEN "create_sse_stream"
                              ELSE "create_buffered_sse_stream", None)
                        EXCEPT !.events = body]]
    /\ UNCHANGED <<config, services, stores, tables, guards, clock>>

PairChunk(p) ==
    /\ frame[p].chunks < Len(frame[p].events)
    /\ SseChunk(p, frame[p].events[frame[p].chunks + 1], clock)

PairUpstreamEnd(p, outcome) ==
    /\ frame[p].chunks = Len(frame[p].events)
    /\ SseUpstreamEnd(p, outcome)

PairDropped ==
    /\ \A p \in Procs : pc[p] = "sse_done"
    /\ pc' = [p \in Procs |-> "idle"]
    /\ frame' = [p \in Procs |-> IdleFrame]
    /\ UNCHANGED <<config, services, stores, tables, guards, clock, calls>>

PairNext ==
    \/ \E body \in UpstreamBodies : CreateSsePair(body)
    \/ \E p \in Procs : PairChunk(p)
    \/ \E p \in Procs, outcome \in UpstreamOutcomes : PairUpstreamEnd(p, outcome)
    \/ \E p \in Procs : SsePing(p, clock)
    \/ \E p \in Procs : SseYield(p)
    \/ \E p \in Procs : SseFinished(p)
    \/ PairDropped

PairSpec == Init /\ [][PairNext]_vars

\* PingSpec: one buffered emitter at a time with its ping timer, the client
\* reading on; the emitter's task runs whenever it can
PingNext ==
    \/ \E p \in SeqProcs : CreateBufferedSseStream(p)
    \/ \E p \in SeqProcs : PingTimerElapses(p)
    \/ \E p \in SeqProcs : BufferedEmitterStep(p)

PingSpec ==
    Init /\ [][PingNext]_vars /\ \A p \in SeqProcs : WF_vars(BufferedEmitterStep(p))

\* StickySseSpec: the sticky route; try_acquire hands out the guard the
\* emitter is built with
StickySseMaxClock == 1

StickySseLists == {<<1>>, <<2>>}

StickySseChunks == {<<AssistantResponse>>}

StickySseNext ==
    \/ \E p \in SeqProcs, k \in {"key-a"}, av \in StickySseLists, now \in Instants(StickySseMaxClock) :
           TryAcquireBegin(p, k, av, now, MaxCalls)
    \/ TryAcquireSteps(SeqProcs, TRUE)
    \/ \E p \in SeqProcs, op \in SseOps(TRUE), sid \in IssuedIds,
          now \in Instants(StickySseMaxClock) : CreateSseStreamWithGuard(p, op, sid, now)
    \/ SseSteps(SeqProcs, StickySseChunks, StickySseMaxClock)
    \/ \E p \in SeqProcs : ReleaseDecrement(p)

StickySseSpec == Init /\ [][StickySseNext]_vars

\* NonStreamSpec: non-streamed responses, every sequence of up to MaxEvents events
NonStreamNext ==
    \/ \E p \in SeqProcs, events \in SeqsUpTo(NonStreamEvents, MaxEvents),
             input_tokens \in InputTokenEstimates, auth_key_id \in {Uuid(1)} :
           HandleNonStreamResponse(p, events, input_tokens, auth_key_id)
    \/ \E p \in SeqProcs : NonStreamEvent(p)
    \/ \E p \in SeqProcs : NonStreamStopReason(p)
    \/ \E p \in SeqProcs : NonStreamReturn(p)

NonStreamSpec == Init /\ [][NonStreamNext]_vars

\* ApiKeySpec: the API key store under any sequence of its methods, of
\* authenticated requests and of credential additions and deletions; a reset
\* or a deletion can also run before the call before it has returned
ApiKeyProcs == {1}
ResetProcs == {1, 2}

ApiKeyNext ==
    \/ \E p \in ApiKeyProcs, mode \in RoutingModes, c \in CredentialIdParams :
           CreateKey(p, "name", mode, c)
    \/ \E p \in ApiKeyProcs, id \in KeyIds, mode \in RoutingModes,
          c \in CredentialIdParams : SetRouting(p, id, mode, c)
    \/ \E p \in ResetProcs, c \in ApiCredentialIds : ResetRoutingForCredential(p, c)
    \/ \E p \in ApiKeyProcs, id \in KeyIds, enabled \in BOOLEAN :
           SetEnabled(p, id, enabled)
    \/ \E p \in ApiKeyProcs, id \in KeyIds : DeleteKey(p, id)
    \/ \E p \in ApiKeyProcs : List(p)
    \/ \E p \in ApiKeyProcs, key \in {None} \cup {Some(k) : k \in IncomingKeys} :
           AuthMiddleware(p, key)
    \/ \E p \in ResetProcs : ApiReturn(p)
    \/ \E c \in ApiCredentialIds : AddCredential(c)
    \/ \E p \in ResetProcs, c \in ApiCredentialIds : DeleteCredential(p, c)

\* the tracker plays no part: its limits are fixed
ApiKeyInit ==
    /\ Init
    /\ max_concurrent_per_credential = 1
    /\ max_concurrent_per_key = 1

ApiKeySpec == ApiKeyInit /\ [][ApiKeyNext]_vars

\* RouteSpec: requests to post_messages with every routing input, and every
\* outcome of the provider call
RouteProcs == {1}

RouteNext ==
    \/ \E p \in RouteProcs, kiro_provider \in BOOLEAN, auth \in AuthenticatedKeys,
          x_user_id \in XUserIdHeaders, sticky_tracker \in BOOLEAN,
          load_balancing_mode \in LoadBalancingModes, metadata \in Metadatas,
          stream \in BOOLEAN, web_search \in BOOLEAN, conversion \in ConversionResults :
           PostMessages(p, kiro_provider, auth, x_user_id, sticky_tracker,
                        load_balancing_mode, metadata, stream, web_search, conversion)
    \/ \E p \in RouteProcs, err \in ProviderErrors : ProviderFails(p, err)
    \/ \E p \in RouteProcs, err \in StickyErrors : StickyCallFails(p, err)
    \/ \E p \in RouteProcs : ProviderSucceeds(p)
    \/ \E p \in RouteProcs : PostMessagesReturn(p)

RouteSpec == ApiKeyInit /\ [][RouteNext]_vars

\* SnapshotSpec: snapshot beside the methods that add and remove streams
SnapshotMaxCalls == 2
SnapshotMaxClock == 1

SnapshotNext ==
    \/ \E p \in Procs, k \in Keys, av \in RaceLists, now \in Instants(SnapshotMaxClock) :
           TryAcquireBegin(p, k, av, now, SnapshotMaxCalls)
    \/ TryAcquireSteps(Procs, FALSE)
    \/ \E sid \in IssuedIds, now \in Instants(SnapshotMaxClock) : ActivateStream(sid, now)
    \/ \E p \in Procs, sid \in IssuedIds : CancelReservation(p, sid)
    \/ \E p \in Procs, sid \in IssuedIds : DeactivateStream(p, sid)
    \/ \E p \in Procs : ReleaseDecrement(p)
    \/ CleanupZombiesSteps(Procs, SnapshotMaxClock)
    \/ \E p \in Procs : Snapshot(p)
    \/ \E p \in Procs : SnapshotReturn(p)

SnapshotSpec == Init /\ [][SnapshotNext]_vars

\* LockSpec: the threads run the methods as lock programs
LockNext ==
    \/ \E p \in Procs, call \in LockPrograms : LockCall(p, call)
    \/ \E p \in Procs : LockAcquire(p)
    \/ \E p \in Procs : LockRelease(p)
    \/ \E p \in Procs : LockReturn(p)

LockSpec == Init /\ [][LockNext]_vars

\* ExpirySpec: cleanup_expired_bindings beside requests that come and go
ExpiryMaxCalls == 2
ExpiryMaxClock == 2

ExpiryLists == {<<1>>, <<2>>}

ExpiryInit == New({0, 1}, {0})

ExpiryNext ==
    \/ \E p \in Procs, k \in Keys, av \in ExpiryLists, now \in Instants(ExpiryMaxClock) :
           TryAcquireBegin(p, k, av, now, ExpiryMaxCalls)
    \/ TryAcquireSteps(Procs, FALSE)
    \/ \E p \in Procs, sid \in IssuedIds : DeactivateStream(p, sid)
    \/ \E p \in Procs : ReleaseDecrement(p)
    \/ CleanupExpiredSteps(Procs, ExpiryMaxClock)

ExpirySpec == ExpiryInit /\ [][ExpiryNext]_vars

\* ZombieSpec: time long enough for both timeouts of cleanup_zombies, streams
\* that are activated and touched but never released
ZombieMaxCalls == 2
ZombieMaxClock == 3

ZombieLists == {<<1>>, <<2>>}

ZombieInit == New({0}, {0, 1})

ZombieNext ==
    \/ \E p \in Procs, k \in Keys, av \in ZombieLists, now \in Instants(ZombieMaxClock) :
           TryAcquireBegin(p, k, av, now, ZombieMaxCalls)
    \/ TryAcquireSteps(Procs, FALSE)
    \/ \E sid \in IssuedIds, now \in Instants(ZombieMaxClock) : ActivateStream(sid, now)
    \/ \E sid \in IssuedIds, now \in Instants(ZombieMaxClock) : TouchStream(sid, now)
    \/ CleanupZombiesSteps(Procs, ZombieMaxClock)

ZombieSpec == ZombieInit /\ [][ZombieNext]_vars

\* BackgroundSpec: the background task of main.rs runs cleanup_zombies minute
\* after minute; requests arrive, are activated and touched during the first
\* LastRequestMinute minutes and are never released
BackgroundMaxCalls == 2
LastRequestMinute == 1
BackgroundMaxClock == 4

BackgroundLists == {<<1>>, <<2>>}

\* interval.tick().await, then cleanup_zombies: the next run is a minute later
BackgroundCleanup ==
    \E p \in Procs :
        CleanupZombiesScan(p, IF clock < BackgroundMaxClock THEN clock + 1 ELSE clock)

BackgroundNext ==
    \/ \E p \in Procs, k \in Keys, av \in BackgroundLists,
          now \in Instants(LastRequestMinute) :
           TryAcquireBegin(p, k, av, now, BackgroundMaxCalls)
    \/ TryAcquireSteps(Procs, FALSE)
    \/ \E sid \in IssuedIds, now \in Instants(LastRequestMinute) :
           ActivateStream(sid, now)
    \/ \E sid \in IssuedIds, now \in Instants(LastRequestMinute) :
           TouchStream(sid, now)
    \/ BackgroundCleanup
    \/ \E p \in Procs : CleanupZombiesRemove(p)
    \/ \E p \in Procs, sid \in IssuedIds : CleanupZombiesDecrement(p, sid)

\* every thread that can take a step takes one, and the background task never
\* stops (the loop of main.rs lines 103-114)
BackgroundSpec ==
    /\ ZombieInit
    /\ [][BackgroundNext]_vars
    /\ WF_vars(TryAcquireSteps(Procs, FALSE))
    /\ WF_vars(BackgroundCleanup)
    /\ WF_vars(\E p \in Procs : CleanupZombiesRemove(p))
    /\ WF_vars(\E p \in Procs, sid \in IssuedIds : CleanupZombiesDecrement(p, sid))

(***************************************************************************)
(* Vocabulary of the properties.                                           *)
(***************************************************************************)
\* no tracker method is between two of its critical sections
Quiescent == \A p \in Procs : pc[p] = "idle"

\* the Active Streams of credential c, and those of them that belong to key k
StreamsOn(c) == {sid \in DOMAIN active_streams : active_streams[sid].credential_id = c}
StreamsOf(c, k) == {sid \in StreamsOn(c) : active_streams[sid].api_key = k}

\* thread p takes the step that leaves its program point from
Leaves(p, from) == pc[p] = from /\ pc'[p] # from
\* thread p takes the step that brings it to the program point to
Enters(p, to) == pc[p] # to /\ pc'[p] = to

(***************************************************************************)
(* C1: whenever no call is in progress, after any interleaving of          *)
(* try_acquire, deactivate_stream, cancel_reservation and cleanup_zombies, *)
(* per_key_counts[C][K] (0 for a missing entry) is the number of Active    *)
(* Streams of credential C and key K.                                      *)
(***************************************************************************)
C1_PerKeyCountsMatchStreams ==
    Quiescent =>
        \A c \in Creds, k \in Keys :
            PerKeyCount(concurrency, c, k) = Cardinality(StreamsOf(c, k))

\* two reservations were made, one was released, one is still counted
C1_Witness ==
    /\ Quiescent
    /\ next_stream_id = 3
    /\ Cardinality(DOMAIN active_streams) = 1
    /\ \E c \in Creds, k \in Keys : PerKeyCount(concurrency, c, k) = 1

(***************************************************************************)
(* C2: the count check and the reservation of a try_acquire call are one   *)
(* critical section: while a call that took the sticky-hit path or global  *)
(* selection holds the lock for its increment, active_count of the         *)
(* credential it chose is still strictly below                             *)
(* max_concurrent_per_credential, whatever the other threads do.           *)
(***************************************************************************)
C2_ReservedBelowMax ==
    \A p \in Procs :
        (pc[p] = "reserve_increment" /\ frame[p].path \in {"hit", "assignment"}) =>
            ActiveCount(concurrency, Unwrap(frame[p].credential_id))
                < max_concurrent_per_credential

\* one caller holds the last slot of a credential, another waits for the lock
C2_Witness ==
    \E p, q \in Procs :
        /\ pc[p] = "reserve_increment"
        /\ frame[p].path \in {"hit", "assignment"}
        /\ ActiveCount(concurrency, Unwrap(frame[p].credential_id)) + 1
               = max_concurrent_per_credential
        /\ pc[q] = "lock_concurrency"
        /\ Unwrap(frame[p].credential_id) \in Range(frame[q].available)

(***************************************************************************)
(* C4: in every state reached by an interleaving of try_acquire,           *)
(* deactivate_stream, cancel_reservation and cleanup_zombies, active_count *)
(* of every credential is the sum of its per_key_counts.                   *)
(***************************************************************************)
C4_ActiveCountIsSumOfPerKey ==
    \A c \in Creds :
        ActiveCount(concurrency, c) =
            IF c \in DOMAIN concurrency
            THEN SumOver(concurrency[c].per_key_counts,
                         DOMAIN concurrency[c].per_key_counts)
            ELSE 0

\* a credential carries streams of two keys while a release is under way
C4_Witness ==
    \E c \in Creds :
        /\ c \in DOMAIN concurrency
        /\ Cardinality(DOMAIN concurrency[c].per_key_counts) = 2
        /\ concurrency[c].active_count = 2
        /\ \E p \in Procs : pc[p] = "release_decrement"

(***************************************************************************)
(* A call seen from its return (program point count_stat) when no other    *)
(* thread ran during it: the tables as they were when it was made.         *)
(***************************************************************************)
OwnReservation(p, c) == IF frame[p].credential_id = Some(c) THEN 1 ELSE 0

ActiveCountBefore(p, c) == ActiveCount(concurrency, c) - OwnReservation(p, c)

PerKeyCountBefore(p, c) ==
    PerKeyCount(concurrency, c, frame[p].api_key) - OwnReservation(p, c)

StreamsOfKeyBefore(p) ==
    {sid \in DOMAIN active_streams :
        /\ active_streams[sid].api_key = frame[p].api_key
        /\ frame[p].stream_id # Some(sid)}

\* every available credential was at (or above) the limit
NoFreeSlotBefore(p) ==
    \A c \in Range(frame[p].available) :
        ActiveCountBefore(p, c) >= max_concurrent_per_credential

(***************************************************************************)
(* C3: a try_acquire made when every available credential has active_count *)
(* at max_concurrent_per_credential (or above it) and the requesting key   *)
(* has no Active Stream on any credential does not return Acquired: it     *)
(* returns AllFull.                                                        *)
(***************************************************************************)
C3_NoAcquireWhenAllFull ==
    \A p \in Procs :
        (/\ pc[p] = "count_stat"
         /\ NoFreeSlotBefore(p)
         /\ StreamsOfKeyBefore(p) = {})
            => TryAcquireResult(frame[p]).kind = "AllFull"

\* a bound key with no stream left finds its credential taken by another key
C3_Witness ==
    \E p \in Procs :
        /\ pc[p] = "count_stat"
        /\ frame[p].path = "all_full"
        /\ IsSome(frame[p].bound)
        /\ Unwrap(frame[p].bound) \in Range(frame[p].available)
        /\ NoFreeSlotBefore(p)
        /\ StreamsOfKeyBefore(p) = {}

\* the stream a thread has taken out of the table and not yet uncounted
RemovedStream(p) == frame[p].removed[Unwrap(frame[p].stream_id)]

\* the step that uncounts it lowers both counts of its credential and key by
\* one and no other count
UncountsRemoved(p) ==
    LET stream == RemovedStream(p)
    IN  /\ pc'[p] = "idle"
        /\ ActiveCount(concurrency', stream.credential_id)
              = ActiveCount(concurrency, stream.credential_id) - 1
        /\ PerKeyCount(concurrency', stream.credential_id, stream.api_key)
              = PerKeyCount(concurrency, stream.credential_id, stream.api_key) - 1
        /\ \A c \in Creds \ {stream.credential_id} :
              ActiveCount(concurrency', c) = ActiveCount(concurrency, c)
        /\ \A c \in Creds, k \in Keys :
              (c # stream.credential_id \/ k # stream.api_key) =>
                  PerKeyCount(concurrency', c, k) = PerKeyCount(concurrency, c, k)

\* the step that takes stream sid out of the table hands it, and nothing else,
\* to thread-local state for the decrement
TakesOut(sid, op) ==
    /\ active_streams' = MapRemove(active_streams, sid)
    /\ concurrency' = concurrency
    /\ \E p \in Procs :
          /\ Enters(p, "release_decrement")
          /\ frame'[p].op = op
          /\ frame'[p].stream_id = Some(sid)
          /\ frame'[p].removed = MapRestrict(active_streams, {sid})

C5_DropStep ==
    \A sid \in DOMAIN guards :
        sid \notin DOMAIN guards' =>
            IF sid \in DOMAIN active_streams
            THEN TakesOut(sid, "drop")
            ELSE /\ UNCHANGED <<active_streams, concurrency>>
                 /\ pc' = pc

C5_DecrementStep ==
    \A p \in Procs :
        (Leaves(p, "release_decrement") /\ frame[p].op = "drop") => UncountsRemoved(p)

C5_AllReleased ==
    (Quiescent /\ DOMAIN guards = {}) =>
        (DOMAIN active_streams = {} /\ DOMAIN concurrency = {})

(***************************************************************************)
(* C5: dropping a StreamGuard, activated or not, takes its Active Stream   *)
(* out of the table (if cleanup_zombies has not already done so) and the   *)
(* decrement that follows lowers active_count and per_key_counts[api_key]  *)
(* of the owning credential by exactly one; once every guard is dropped    *)
(* and no call is in progress, no stream and no count is left.             *)
(***************************************************************************)
C5_GuardDropReleasesOnce ==
    /\ []C5_AllReleased
    /\ [][C5_DropStep /\ C5_DecrementStep]_vars

\* two guards dropped, one activated and one not, both about to decrement
C5_Witness ==
    \E p, q \in Procs :
        /\ pc[p] = "release_decrement" /\ frame[p].op = "drop"
        /\ pc[q] = "release_decrement" /\ frame[q].op = "drop"
        /\ RemovedStream(p).activated
        /\ ~RemovedStream(q).activated

\* a step that turns the activated flag of a stream on changes that flag and
\* the touch time of that stream, and nothing else in the tracker
C6_ActivationStep ==
    \A sid \in DOMAIN active_streams :
        (/\ sid \in DOMAIN active_streams'
         /\ ~active_streams[sid].activated
         /\ active_streams'[sid].activated) =>
            /\ active_streams' =
                  [active_streams EXCEPT ![sid].activated = TRUE,
                                         ![sid].last_touch_at = clock']
            /\ UNCHANGED <<concurrency, bindings, stats, next_stream_id>>

\* a slot is granted on a hit or an assignment only while the streams of the
\* credential, activated or not, are fewer than the limit
C6_ReservationStep ==
    \A p \in Procs :
        (Enters(p, "reserve_increment") /\ frame'[p].path \in {"hit", "assignment"}) =>
            Cardinality(StreamsOn(Unwrap(frame'[p].credential_id)))
                < max_concurrent_per_credential

(***************************************************************************)
(* C6: the slot is consumed at reservation, not at activation: a hit or an *)
(* assignment is granted only on a credential whose Active Streams,        *)
(* activated or not, are fewer than max_concurrent_per_credential; and     *)
(* activate_stream sets activated and refreshes last_touch_at to the       *)
(* current instant, leaving active_count, per_key_counts, bindings, stats  *)
(* and every other stream unchanged.                                       *)
(***************************************************************************)
C6_SlotConsumedAtReservation ==
    [][C6_ActivationStep /\ C6_ReservationStep]_vars

\* the one reservation granted fills its credential, the other call was
\* rejected, and the stream was activated later than it was reserved
C6_Witness ==
    \E sid \in DOMAIN active_streams :
        /\ active_streams[sid].activated
        /\ active_streams[sid].last_touch_at = 1
        /\ stats.rejections_429 = 1
        /\ stats.assignments = 1
        /\ ActiveCount(concurrency, active_streams[sid].credential_id) = 1

(***************************************************************************)
(* A call seen from its start (program point lock_concurrency, the binding *)
(* read and the lock not yet taken) when no other thread runs: the tables  *)
(* are those of the call.                                                  *)
(***************************************************************************)
Called(p) == pc[p] = "lock_concurrency"

BoundTo(p, c) ==
    /\ frame[p].api_key \in DOMAIN bindings
    /\ bindings[frame[p].api_key].credential_id = c

\* the step reserves a stream for the call of p on credential c by the path
Reserves(p, c, path) ==
    /\ pc'[p] = "reserve_increment"
    /\ frame'[p].path = path
    /\ frame'[p].credential_id = Some(c)
    /\ frame'[p].stream_id = Some(next_stream_id)
    /\ active_streams' = MapInsert(active_streams, next_stream_id,
                             ActiveStream(c, frame[p].api_key, FALSE, frame[p].now))

\* the step returns Acquired on the credential reserved and counts the path
ReturnsAcquired(p, counted) ==
    /\ pc'[p] = "idle"
    /\ TryAcquireResult(frame[p]) =
           Acquired(Unwrap(frame[p].credential_id), Unwrap(frame[p].stream_id))
    /\ stats' = counted
    /\ Unwrap(frame[p].stream_id) \in DOMAIN active_streams
    /\ active_streams[Unwrap(frame[p].stream_id)].credential_id
           = Unwrap(frame[p].credential_id)

HitCase(p, c) ==
    /\ Called(p)
    /\ BoundTo(p, c)
    /\ c \in Range(frame[p].available)
    /\ ActiveCount(concurrency, c) < max_concurrent_per_credential

C7_Grant ==
    \A p \in Procs, c \in Creds :
        (HitCase(p, c) /\ pc'[p] # pc[p]) => Reserves(p, c, "hit")

C7_Refresh ==
    \A p \in Procs :
        (Leaves(p, "update_binding") /\ frame[p].path = "hit") =>
            /\ BoundTo(p, Unwrap(frame[p].credential_id))
            /\ bindings' = [bindings EXCEPT ![frame[p].api_key].last_request_at
                                                = frame[p].now]

C7_Count ==
    \A p \in Procs :
        (Leaves(p, "count_stat") /\ frame[p].path = "hit") =>
            ReturnsAcquired(p, [stats EXCEPT !.hits = @ + 1])

(***************************************************************************)
(* C7: sticky hit.  A try_acquire of a key bound to credential C, with C   *)
(* among the available credentials and active_count[C] below               *)
(* max_concurrent_per_credential, reserves on C whatever the load of the   *)
(* other available credentials, then sets the binding's last_request_at to *)
(* the instant of the call, then adds one to hits (and to no other         *)
(* counter) and returns Acquired on C.                                     *)
(***************************************************************************)
C7_StickyHit == [][C7_Grant /\ C7_Refresh /\ C7_Count]_vars

\* a hit about to return on a credential that had a stream while another
\* available credential had none, on a binding made at an earlier instant
C7_Witness ==
    \E p \in Procs, c \in Creds :
        /\ pc[p] = "count_stat" /\ frame[p].path = "hit"
        /\ \E other \in Range(frame[p].available) :
              ActiveCount(concurrency, other) < ActiveCountBefore(p, c)
        /\ frame[p].credential_id = Some(c)
        /\ frame[p].now = 1
        /\ bindings[frame[p].api_key] = StickyBinding(c, 1)
        /\ \E sid \in StreamsOn(c) : active_streams[sid].last_touch_at = 0

\* the case of the queue jump as the claim words it: nothing is said of the
\* available credentials
JumpCaseAsStated(p, c) ==
    /\ Called(p)
    /\ BoundTo(p, c)
    /\ ActiveCount(concurrency, c) >= max_concurrent_per_credential
    /\ PerKeyCount(concurrency, c, frame[p].api_key) > 0
    /\ PerKeyCount(concurrency, c, frame[p].api_key) < max_concurrent_per_key

\* the case the code tests: line 144 sends a bound credential that is not
\* available to the global selection before any count is read
JumpCase(p, c) == JumpCaseAsStated(p, c) /\ c \in Range(frame[p].available)

C8_Count ==
    \A p \in Procs :
        (Leaves(p, "count_stat") /\ frame[p].path = "queue_jump") =>
            ReturnsAcquired(p, [stats EXCEPT !.queue_jumps = @ + 1])

\* a reservation on a credential that is full, or one counted as a queue jump,
\* is made in the case of the queue jump and in no other
C8_NoOtherCase ==
    \A p \in Procs :
        Enters(p, "reserve_increment") =>
            LET c == Unwrap(frame'[p].credential_id)
            IN  (\/ frame'[p].path = "queue_jump"
                 \/ ActiveCount(concurrency, c) >= max_concurrent_per_credential)
                    => (JumpCase(p, c) /\ frame'[p].path = "queue_jump")

C8_WithinKeyLimit ==
    \A p \in Procs :
        (Leaves(p, "reserve_increment") /\ frame[p].path = "queue_jump") =>
            PerKeyCount(concurrency', Unwrap(frame[p].credential_id), frame[p].api_key)
                <= max_concurrent_per_key

(***************************************************************************)
(* C8: queue jump.  A try_acquire of a key bound to credential C, with C   *)
(* among the available credentials, C full (active_count[C] >=             *)
(* max_concurrent_per_credential) and the key holding n streams on C with  *)
(* 0 < n < max_concurrent_per_key, reserves on C, adds one to queue_jumps  *)
(* (and to no other counter) and returns Acquired on C; no reservation is  *)
(* made on a full credential in any other case, and the reservation leaves *)
(* the key's count on C at most max_concurrent_per_key.                    *)
(***************************************************************************)
C8_QueueJump ==
    [][/\ \A p \in Procs, c \in Creds :
             (JumpCase(p, c) /\ pc'[p] # pc[p]) => Reserves(p, c, "queue_jump")
       /\ C8_Count
       /\ C8_NoOtherCase
       /\ C8_WithinKeyLimit]_vars

\* C8 as worded, without the condition that C is available
C8_QueueJumpAsStated ==
    [][/\ \A p \in Procs, c \in Creds :
             (JumpCaseAsStated(p, c) /\ pc'[p] # pc[p]) => Reserves(p, c, "queue_jump")
       /\ C8_Count
       /\ C8_NoOtherCase
       /\ C8_WithinKeyLimit]_vars

\* a queue jump about to return that brought the key to its limit on a
\* credential holding more streams than max_concurrent_per_credential
C8_Witness ==
    \E p \in Procs, c \in Creds :
        /\ pc[p] = "count_stat" /\ frame[p].path = "queue_jump"
        /\ frame[p].credential_id = Some(c)
        /\ PerKeyCount(concurrency, c, frame[p].api_key) = max_concurrent_per_key
        /\ ActiveCount(concurrency, c) > max_concurrent_per_credential

\* order of the f64s of the jitter: the value is eighths / 8 less below ulps
AtLeastFive(v) == v.eighths > 40 \/ (v.eighths = 40 /\ v.below = 0)
AtMostTen(v) == v.eighths < 80 \/ (v.eighths = 80 /\ v.below >= 0)
LessThanTen(v) == v.eighths < 80 \/ (v.eighths = 80 /\ v.below > 0)

\* no queue jump applied to the call of p
NoQueueJumpBefore(p) ==
    ~ \E c \in Range(frame[p].available) :
          /\ frame[p].bound = Some(c)
          /\ ActiveCountBefore(p, c) >= max_concurrent_per_credential
          /\ PerKeyCountBefore(p, c) > 0
          /\ PerKeyCountBefore(p, c) < max_concurrent_per_key

RejectCase(p) ==
    pc[p] = "count_stat" /\ NoFreeSlotBefore(p) /\ NoQueueJumpBefore(p)

\* the call is rejected, and a rejected call has reserved no stream
C9_Rejects ==
    \A p \in Procs :
        RejectCase(p) =>
            /\ TryAcquireResult(frame[p]).kind = "AllFull"
            /\ frame[p].credential_id = None /\ frame[p].stream_id = None
            /\ AtLeastFive(TryAcquireResult(frame[p]).retry_after_secs)
            /\ AtMostTen(TryAcquireResult(frame[p]).retry_after_secs)

C9_RejectsBelowTen ==
    \A p \in Procs :
        RejectCase(p) =>
            /\ TryAcquireResult(frame[p]).kind = "AllFull"
            /\ frame[p].credential_id = None /\ frame[p].stream_id = None
            /\ AtLeastFive(TryAcquireResult(frame[p]).retry_after_secs)
            /\ LessThanTen(TryAcquireResult(frame[p]).retry_after_secs)

C9_Count ==
    \A p \in Procs :
        (Leaves(p, "count_stat") /\ frame[p].path = "all_full") =>
            /\ pc'[p] = "idle"
            /\ stats' = [stats EXCEPT !.rejections_429 = @ + 1]

\* the steps of try_acquire other than the two of reserve_stream_locked leave
\* the Active Stream table, the counts and the id counter as they are
C9_ReservesNothing ==
    \A p \in Procs :
        (/\ pc'[p] # pc[p]
         /\ \/ Enters(p, "lock_concurrency")
            \/ pc[p] \in {"lock_concurrency", "remove_binding", "count_unbind",
                          "relock_concurrency", "update_binding", "count_stat"}
         /\ pc'[p] # "reserve_increment") =>
            UNCHANGED <<active_streams, concurrency, next_stream_id>>

(***************************************************************************)
(* C9: a try_acquire made when no available credential has a free slot and *)
(* no queue jump applies returns AllFull with 5 <= retry_after_secs <= 10  *)
(* (10.0 itself is returned when the f64 sum rounds up), adds one to       *)
(* rejections_429 and to no other counter, and reserves nothing: none of   *)
(* its steps changes the Active Stream table, a concurrency count or the   *)
(* stream id counter.                                                      *)
(***************************************************************************)
C9_AllFullRejects ==
    /\ []C9_Rejects
    /\ [][C9_Count /\ C9_ReservesNothing]_vars

\* C9 as worded: retry_after_secs in [5, 10)
C9_AllFullRejectsAsStated ==
    /\ []C9_RejectsBelowTen
    /\ [][C9_Count /\ C9_ReservesNothing]_vars

\* a rejection of a bound key at its per-key limit, about to be counted, whose
\* jitter rounded to 10.0
C9_Witness ==
    \E p \in Procs, c \in Creds :
        /\ RejectCase(p)
        /\ frame[p].path = "all_full"
        /\ frame[p].bound = Some(c)
        /\ c \in Range(frame[p].available)
        /\ PerKeyCount(concurrency, c, frame[p].api_key) = max_concurrent_per_key
        /\ frame[p].retry_after_secs = Some(F64(80, 0))

ReleaseOps == {"cancel_reservation", "deactivate_stream"}

C10_RemoveStep ==
    \A p \in Procs :
        (Enters(p, "release_decrement") /\ frame'[p].op \in ReleaseOps) =>
            /\ Unwrap(frame'[p].stream_id) \in DOMAIN active_streams
            /\ TakesOut(Unwrap(frame'[p].stream_id), frame'[p].op)

\* the decrement undoes the increment of the reservation: reserving again for
\* the same credential and key gives back the counts the decrement found, and a
\* credential that was not over its limit is one the global selection grants
C10_DecrementStep ==
    \A p \in Procs :
        (Leaves(p, "release_decrement") /\ frame[p].op \in ReleaseOps) =>
            LET stream == RemovedStream(p)
            IN  /\ UncountsRemoved(p)
                /\ increment_concurrency_locked(concurrency', stream.credential_id,
                                                stream.api_key) = concurrency
                /\ ActiveCount(concurrency, stream.credential_id)
                        <= max_concurrent_per_credential
                     => select_best_credential_locked(concurrency',
                            <<stream.credential_id>>, max_concurrent_per_credential)
                          = Some(stream.credential_id)

(***************************************************************************)
(* C10: deactivate_stream and cancel_reservation, applied to a live stream *)
(* id whatever its activated flag, remove that Active Stream and no other, *)
(* and then lower active_count and per_key_counts[api_key] of its          *)
(* credential by one, back to what a reservation for that credential and   *)
(* key raises to the counts found; a credential that was at its limit is   *)
(* then one the global selection of any key can be given.                  *)
(***************************************************************************)
C10_ReleaseUndoesReservation ==
    [][C10_RemoveStep /\ C10_DecrementStep]_vars

\* cancel_reservation on a stream that was activated, about to free the last
\* slot of a full credential
C10_Witness ==
    \E p \in Procs :
        /\ pc[p] = "release_decrement"
        /\ frame[p].op = "cancel_reservation"
        /\ RemovedStream(p).activated
        /\ ActiveCount(concurrency, RemovedStream(p).credential_id)
              = max_concurrent_per_credential
        /\ stats.rejections_429 > 0

\* the streams cleanup_zombies is to remove at the instant now, as the claim
\* words it
ZombieByClaim(stream, now) ==
    \/ stream.activated /\ now - stream.last_touch_at > zombie_stream_timeout_minutes
    \/ ~stream.activated /\ now - stream.last_touch_at > ReservationTimeoutMinutes

\* what the scan of the table collects
C11_ScanStep ==
    \A p \in Procs :
        (pc[p] = "idle" /\ pc'[p] = "cleanup_remove") =>
            frame'[p].zombie_ids =
                {sid \in DOMAIN active_streams :
                    ZombieByClaim(active_streams[sid], clock')}

\* what is removed: every stream collected that is still there, and only
\* streams whose last_touch_at is older than their timeout
C11_RemoveStep ==
    \A p \in Procs :
        Leaves(p, "cleanup_remove") =>
            /\ \A sid \in frame[p].zombie_ids : sid \notin DOMAIN active_streams'
            /\ \A sid \in DOMAIN active_streams :
                  sid \notin DOMAIN active_streams' =>
                      ZombieByClaim(active_streams[sid], clock)
            /\ pc'[p] \in {"idle", "cleanup_decrement"}
            /\ pc'[p] = "cleanup_decrement" =>
                  frame'[p].count =
                      Cardinality(DOMAIN active_streams \ DOMAIN active_streams')

\* one decrement for each stream removed, and the number removed is returned
C11_DecrementStep ==
    \A p \in Procs :
        (pc[p] = "cleanup_decrement" /\ frame'[p] # frame[p]) =>
            \E sid \in DOMAIN frame[p].removed :
                LET stream == frame[p].removed[sid]
                IN  /\ ActiveCount(concurrency', stream.credential_id)
                          = ActiveCount(concurrency, stream.credential_id) - 1
                    /\ PerKeyCount(concurrency', stream.credential_id, stream.api_key)
                          = PerKeyCount(concurrency, stream.credential_id,
                                        stream.api_key) - 1
                    /\ IF DOMAIN frame[p].removed = {sid}
                       THEN pc'[p] = "idle"
                       ELSE /\ pc'[p] = "cleanup_decrement"
                            /\ frame'[p].count = frame[p].count
                            /\ frame'[p].removed = MapRemove(frame[p].removed, sid)

(***************************************************************************)
(* C11: cleanup_zombies removes an Active Stream if and only if it is      *)
(* activated and its last_touch_at is older than                           *)
(* zombie_stream_timeout_minutes, or it is not activated and its           *)
(* last_touch_at is older than the 2-minute reservation timeout; it        *)
(* decrements the counters of every stream it removes and returns the      *)
(* number removed.                                                         *)
(***************************************************************************)
C11_CleanupZombies == [][C11_ScanStep /\ C11_RemoveStep /\ C11_DecrementStep]_vars

(***************************************************************************)
(* C12: with the background task running cleanup_zombies every minute,     *)
(* every Active Stream that is no longer touched is eventually removed and *)
(* its counters decremented although nothing releases it: from some point  *)
(* on the Active Stream table and the concurrency counts are empty, so no  *)
(* credential stays full.                                                  *)
(***************************************************************************)
C12_LeakedCreditReclaimed ==
    <>[](DOMAIN active_streams = {} /\ DOMAIN concurrency = {})

\* a reservation that was never activated, older than 2 minutes, taken out of
\* the table while it still fills its credential
C12_Witness ==
    \E p \in Procs : \E sid \in DOMAIN frame[p].removed :
        /\ pc[p] = "cleanup_decrement"
        /\ ~frame[p].removed[sid].activated
        /\ clock - frame[p].removed[sid].last_touch_at > ReservationTimeoutMinutes
        /\ ActiveCount(concurrency, frame[p].removed[sid].credential_id)
              = max_concurrent_per_credential
        /\ stats.rejections_429 > 0

\* the keys some Active Stream refers to
KeysInUse == {active_streams[sid].api_key : sid \in DOMAIN active_streams}

(***************************************************************************)
(* C13: cleanup_expired_bindings removes a binding only if it is older     *)
(* than sticky_expiry_minutes and, at the moment it is removed, no Active  *)
(* Stream references that api_key, also when it runs concurrently with     *)
(* try_acquire calls for the same api_key.                                 *)
(***************************************************************************)
C13_ExpiredOnlyWhenUnused ==
    [][\A p \in Procs :
          Leaves(p, "expired_remove") =>
              \A k \in DOMAIN bindings :
                  k \notin DOMAIN bindings' =>
                      /\ clock - bindings[k].last_request_at > sticky_expiry_minutes
                      /\ k \notin KeysInUse]_vars

\* bindings, then concurrency, then active_streams, then stats
LockRank(l) ==
    CASE l = "bindings" -> 1
      [] l = "concurrency" -> 2
      [] l = "active_streams" -> 3
      [] l = "stats" -> 4

Requests(p, l) == AtInstruction(p) /\ Instruction(p) = Lock(l)

\* thread p waits for a mutex another thread (or itself) holds
Blocked(p) == \E l \in Locks : Requests(p, l) /\ ~LockFree(l)

C14_InOrder ==
    \A p \in Procs, l \in Locks :
        Requests(p, l) => \A h \in Range(frame[p].held) : LockRank(h) < LockRank(l)

C14_NoDeadlock ==
    (\E p \in Procs : pc[p] = "locks") => \E p \in Procs : pc[p] = "locks" /\ ~Blocked(p)

(***************************************************************************)
(* C14: every tracker method takes its locks in the order bindings,        *)
(* concurrency, active_streams, stats: whenever a thread requests a lock,  *)
(* every lock it holds comes earlier in that order; a method returns       *)
(* holding none; and in no interleaving of the methods are all the running *)
(* threads waiting for a lock (no deadlock).                               *)
(***************************************************************************)
C14_LockOrder ==
    /\ C14_InOrder
    /\ C14_NoDeadlock
    /\ \A p \in Procs :
          (pc[p] = "locks" /\ ~AtInstruction(p)) => frame[p].held = <<>>

\* snapshot, holding bindings and concurrency, waits for active_streams, which a
\* try_acquire would hold inside the concurrency lock and another method holds now
C14_Witness ==
    \E p, q \in Procs :
        /\ frame[p].op = "snapshot"
        /\ frame[p].held = <<"bindings", "concurrency">>
        /\ Requests(p, "active_streams")
        /\ "active_streams" \in Range(frame[q].held)
        /\ Blocked(p)

RECURSIVE SumOfActiveCounts(_)
SumOfActiveCounts(credentials) ==
    IF credentials = <<>> THEN 0
    ELSE Head(credentials).active_count + SumOfActiveCounts(Tail(credentials))

\* thread p is inside a method that has removed a stream and not yet
\* decremented its credential
MidRelease(p) == pc[p] \in {"release_decrement", "cleanup_decrement"}

(***************************************************************************)
(* C15: in every snapshot returned, also one taken while another thread is *)
(* inside deactivate_stream, cancel_reservation, cleanup_zombies or        *)
(* try_acquire, active_stream_count equals the sum of active_count over    *)
(* the credentials reported.                                               *)
(***************************************************************************)
C15_SnapshotConsistent ==
    \A p \in Procs :
        pc[p] = "snapshot_return" =>
            LET snap == Unwrap(frame[p].snapshot)
            IN  snap.active_stream_count = SumOfActiveCounts(snap.credentials)

\* the same, for the snapshots taken while no thread is between removing a
\* stream and decrementing its credential
C15_ConsistentWhenNoReleaseInProgress ==
    [][\A p \in Procs :
          (Enters(p, "snapshot_return") /\ \A q \in Procs : ~MidRelease(q)) =>
              LET snap == Unwrap(frame'[p].snapshot)
              IN  snap.active_stream_count = SumOfActiveCounts(snap.credentials)]_vars

\* thread p runs an emitter whose stream has ended (None was returned) or was
\* dropped by a severed client
Emitting(p) == pc[p] \in {"sse_poll", "sse_done", "sse_severed"}

C16_NeverTwice == \A p \in Procs : frame[p].usage_records <= 1

\* once when the upstream stream ends normally or the read of the body fails
C16_OnceWhenUpstreamEnds ==
    \A p \in Procs : pc[p] = "sse_done" => frame[p].usage_records = 1

(***************************************************************************)
(* C16: record_usage is called exactly once per streamed request whatever  *)
(* the outcome: never twice, and once by the time the response is over,    *)
(* whether the upstream stream ended, the read of its body failed, or the  *)
(* client's transport was severed mid-stream.                              *)
(***************************************************************************)
C16_UsageRecordedOnce ==
    /\ C16_NeverTwice
    /\ C16_OnceWhenUpstreamEnds
    /\ \A p \in Procs : pc[p] = "sse_severed" => frame[p].usage_records = 1

\* the emitter of thread p, holding a guard of a stream still in the table,
\* takes a chunk / emits a ping
TakesChunk(p) ==
    pc[p] = "sse_poll" /\ frame'[p].chunks > frame[p].chunks
EmitsPing(p) ==
    pc[p] = "sse_poll" /\ frame'[p].pings > frame[p].pings
GuardedStream(p) ==
    IsSome(frame[p].guard) /\ Unwrap(frame[p].guard) \in DOMAIN active_streams
Refreshed(p) ==
    active_streams'[Unwrap(frame[p].guard)].last_touch_at = clock'

C17_TouchOnChunk ==
    [][\A p \in Procs : (GuardedStream(p) /\ TakesChunk(p)) => Refreshed(p)]_vars

(***************************************************************************)
(* C17: in the sticky streaming path, incremental and buffered, every      *)
(* upstream chunk received and every keep-alive ping emitted refreshes the *)
(* stream's last_touch_at to the instant of the chunk or ping.             *)
(***************************************************************************)
C17_TouchOnChunkAndPing ==
    [][\A p \in Procs :
          (GuardedStream(p) /\ (TakesChunk(p) \/ EmitsPing(p))) => Refreshed(p)]_vars

\* the frames of a sequence that are not pings
NonPing(frames) == SelectSeq(frames, LAMBDA b : b # PingBytes)

(***************************************************************************)
(* C18: in buffered mode, until upstream has produced a ContextUsage event *)
(* or has ended (end of stream or read error) every frame sent or handed   *)
(* over for sending is a ping; and the translated events go out as one     *)
(* item stream that holds the whole transcript.                            *)
(***************************************************************************)
C18_BufferedWithholds ==
    \A p \in Procs :
        (Emitting(p) /\ IsBuffered(frame[p].op)) =>
            /\ ~(IsSome(frame[p].context_input_tokens) \/ frame[p].finished) =>
                   NonPing(frame[p].sent \o frame[p].inner) = <<>>
            /\ NonPing(frame[p].sent \o frame[p].inner) # <<>> =>
                   NonPing(frame[p].sent) \o frame[p].inner =
                       events_to_sse_bytes(
                           finish_and_get_all_events(frame[p].buffer, frame[p].chunks,
                               frame[p].context_input_tokens))

\* pings went out while the events were held; ContextUsage came; upstream ended
\* and the transcript, with translated events in it, has been sent
C18_Witness ==
    \E p \in Procs :
        /\ pc[p] = "sse_done"
        /\ IsBuffered(frame[p].op)
        /\ IsSome(frame[p].context_input_tokens)
        /\ frame[p].buffer # <<>>
        /\ frame[p].sent[1] = PingBytes
        /\ Len(NonPing(frame[p].sent)) > Len(frame[p].buffer)

\* what the incremental emitter has translated so far, first to last
Translated(p) ==
    events_to_sse_bytes(
        generate_initial_events \o frame[p].response_events
            \o (IF frame[p].finished THEN generate_final_events(frame[p].chunks)
                ELSE <<>>))

\* the chunk a frame that is not a ping comes from (0: initial events)
ChunkOf(bytes) == bytes[4].origin[1]

C19_InOrder ==
    \A p \in Procs :
        (Emitting(p) /\ frame[p].op = "create_sse_stream") =>
            /\ NonPing(frame[p].sent) \o NonPing(frame[p].inner) = Translated(p)
            /\ pc[p] = "sse_done" => NonPing(frame[p].sent) = Translated(p)

C19_NoPingInsideChunk ==
    \A p \in Procs :
        (Emitting(p) /\ frame[p].op = "create_sse_stream") =>
            LET sent == frame[p].sent
            IN  \A i, j, k \in DOMAIN sent :
                    (i < j /\ j < k /\ sent[j] = PingBytes
                     /\ sent[i] # PingBytes /\ sent[k] # PingBytes) =>
                        ChunkOf(sent[i]) # ChunkOf(sent[k])

C19_PingsBetweenChunks ==
    \A p \in Procs :
        (pc[p] = "sse_done" /\ frame[p].op = "create_sse_stream") =>
            LET sent == frame[p].sent
                FromChunk(i) == sent[i] # PingBytes /\ ChunkOf(sent[i]) \in 1..frame[p].chunks
            IN  \A j \in DOMAIN sent :
                    sent[j] = PingBytes =>
                        \E i, k \in DOMAIN sent :
                            /\ i < j /\ j < k
                            /\ FromChunk(i) /\ FromChunk(k)
                            /\ ChunkOf(sent[i]) # ChunkOf(sent[k])

(***************************************************************************)
(* C19 as stated: the incremental emitter sends the translated events in   *)
(* the order process_kiro_event produced them, none lost, none twice, and  *)
(* every ping frame stands between the outputs of two chunks.              *)
(***************************************************************************)
C19_OrderedAsStated == C19_InOrder /\ C19_PingsBetweenChunks

(***************************************************************************)
(* C19: the incremental emitter sends the translated events in the order   *)
(* process_kiro_event produced them, upstream event after upstream event   *)
(* and chunk after chunk, none lost, none twice; and a ping frame never    *)
(* stands inside the output of one chunk.                                  *)
(***************************************************************************)
C19_Ordered == C19_InOrder /\ C19_NoPingInsideChunk

\* two chunks with three translated events, a ping between their outputs, all sent
C19_Witness ==
    \E p \in Procs :
        /\ pc[p] = "sse_done"
        /\ frame[p].op = "create_sse_stream"
        /\ frame[p].chunks = 2
        /\ Len(frame[p].response_events) >= 3
        /\ \E j \in DOMAIN frame[p].sent :
              /\ frame[p].sent[j] = PingBytes
              /\ j > 1 /\ j < Len(frame[p].sent)
              /\ frame[p].sent[j - 1] # PingBytes /\ ChunkOf(frame[p].sent[j - 1]) = 1
              /\ frame[p].sent[j + 1] # PingBytes /\ ChunkOf(frame[p].sent[j + 1]) = 2

\* the stop_reason the precedence gives for a sequence of upstream events
HasContentLengthException(events) ==
    \E i \in DOMAIN events :
        events[i].kind = "Exception"
        /\ events[i].exception_type = "ContentLengthExceededException"
HasContextOverflow(events) ==
    \E i \in DOMAIN events :
        events[i].kind = "ContextUsage" /\ events[i].context_usage_percentage >= Percent(100)
HasToolUse(events) == \E i \in DOMAIN events : events[i].kind = "ToolUse"

StopReasonByPrecedence(events) ==
    IF HasContentLengthException(events) THEN "max_tokens"
    ELSE IF HasContextOverflow(events) THEN "model_context_window_exceeded"
    ELSE IF HasToolUse(events) THEN "tool_use"
    ELSE "end_turn"

(***************************************************************************)
(* C20: the stop_reason of a non-streamed response is max_tokens if a      *)
(* ContentLengthExceededException arrived, else                            *)
(* model_context_window_exceeded if a ContextUsage of 100% or more         *)
(* arrived, else tool_use if a tool block arrived, else end_turn, in       *)
(* whatever order the upstream events arrive.                              *)
(***************************************************************************)
C20_StopReasonPrecedence ==
    \A p \in Procs :
        pc[p] = "non_stream_return" =>
            frame[p].stop_reason = StopReasonByPrecedence(frame[p].events)

\* the same, for the responses in which the exception and the overflow do not
\* both arrive
C20_PrecedenceUnlessBothArrive ==
    \A p \in Procs :
        (/\ pc[p] = "non_stream_return"
         /\ ~(HasContentLengthException(frame[p].events)
              /\ HasContextOverflow(frame[p].events))) =>
            frame[p].stop_reason = StopReasonByPrecedence(frame[p].events)

\* the frames the emitter of thread p has handed over so far, sent or not yet
Output(p) == frame[p].sent \o frame[p].inner

\* the emitter of thread p takes the step in which the read of the body fails
ReadFails(p) ==
    /\ pc[p] = "sse_poll"
    /\ ~frame[p].finished
    /\ frame'[p].finished
    /\ frame'[p].path # "end"

C21_ErrorStep ==
    [][\A p \in Procs :
          ReadFails(p) =>
              /\ frame'[p].inner =
                     events_to_sse_bytes(
                         IF IsBuffered(frame[p].op)
                         THEN finish_and_get_all_events(frame[p].buffer, frame[p].chunks,
                               frame[p].context_input_tokens)
                         ELSE generate_final_events(frame[p].chunks))
              /\ frame'[p].sent = frame[p].sent
              /\ frame'[p].usage_records = frame[p].usage_records + 1
              /\ frame'[p].log_entries =
                     Append(frame[p].log_entries, <<"error: ", frame'[p].path>>)]_vars

C21_NothingAfter ==
    [][\A p \in Procs :
          (Emitting(p) /\ frame[p].finished /\ Emitting(p)') =>
              /\ Output(p)' = Output(p)
              /\ frame'[p].usage_records = frame[p].usage_records
              /\ frame'[p].log_entries = frame[p].log_entries]_vars

(***************************************************************************)
(* C21: when the read of the upstream body fails, the emitter hands over   *)
(* the final SSE events once, records usage once and a log entry with the  *)
(* status "error: <msg>", and ends the stream: from that step on nothing   *)
(* is added to its output (no data, final or ping frame), to the usage or  *)
(* to the log, and the stream returns None once the events are sent.       *)
(***************************************************************************)
C21_ReadErrorEndsStream == C21_ErrorStep /\ C21_NothingAfter

\* a read error after a chunk and a ping; the stream has ended with the final
\* events as its last frames
C21_Witness ==
    \E p \in Procs :
        /\ pc[p] = "sse_done"
        /\ frame[p].path = "connection reset"
        /\ frame[p].chunks > 0 /\ frame[p].pings > 0
        /\ frame[p].usage_records = 1
        /\ frame[p].log_entries = <<(<<"error: ", "connection reset">>)>>
        /\ frame[p].sent[Len(frame[p].sent)]
               = to_sse_string(generate_final_events(frame[p].chunks)[2])

(***************************************************************************)
(* C22: fixed routing interlock.  After reset_routing_for_credential(C),   *)
(* the call made when credential C is deleted, every API key that list()   *)
(* showed with routing_mode = fixed and credential_id = C is shown by      *)
(* list() with routing_mode = auto and credential_id = null, the other     *)
(* keys are shown as before, and no key references C any more.             *)
(***************************************************************************)
\* thread p takes the step of reset_routing_for_credential(c)
ResetsRouting(p, c) ==
    /\ Enters(p, "api_return")
    /\ frame'[p].op \in {"reset_routing_for_credential", "delete_credential"}
    /\ frame'[p].credential_id = Some(c)

FixedTo(info, c) == info.routing_mode = Fixed /\ info.credential_id = Some(c)

C22_FixedKeysReset ==
    [][\A p \in Procs, c \in ApiCredentialIds :
          ResetsRouting(p, c) =>
              LET before == list(api_keys)
                  after == list(api_keys')
              IN  /\ DOMAIN after = DOMAIN before
                  /\ \A i \in DOMAIN before :
                         IF before[i].credential_id = Some(c)
                         THEN after[i] = [before[i] EXCEPT !.routing_mode = Auto,
                                                          !.credential_id = None]
                         ELSE after[i] = before[i]
                  /\ \A i \in DOMAIN after : after[i].credential_id # Some(c)]_vars

\* a list() call that has not returned yet saw a key fixed to credential c; the
\* routing was then reset for c, and list() now shows that key as (auto, null)
C22_Witness ==
    \E c \in ApiCredentialIds :
        /\ pc[1] = "api_return" /\ frame[1].op = "list"
        /\ pc[2] = "api_return" /\ frame[2].op = "reset_routing_for_credential"
        /\ frame[2].credential_id = Some(c)
        /\ \E i \in DOMAIN frame[1].listed :
               /\ FixedTo(frame[1].listed[i], c)
               /\ i \in DOMAIN api_keys
               /\ list(api_keys)[i].id = frame[1].listed[i].id
               /\ list(api_keys)[i].routing_mode = Auto
               /\ list(api_keys)[i].credential_id = None

Dangling(info, creds) ==
    /\ info.routing_mode = Fixed
    /\ ~(IsSome(info.credential_id) /\ Unwrap(info.credential_id) \in creds)

\* thread p takes the step of create_key or set_routing that writes key id
Writes(p, id) ==
    /\ Enters(p, "api_return")
    /\ \/ frame'[p].op = "create_key" /\ Unwrap(frame'[p].item).id = id
       \/ frame'[p].op = "set_routing" /\ frame'[p].key_id = id

Creates(p) == Enters(p, "api_return") /\ frame'[p].op = "create_key"

\* thread p takes the step of auth_middleware
Authenticates(p) == pc[p] = "idle" /\ frame'[p].op = "auth_middleware"

\* some enabled row holds the secret
EnabledKey(rows, secret) ==
    \E i \in DOMAIN rows : rows[i].enabled = 1 /\ rows[i].key = secret

C28_CreatedKeyAuthenticates ==
    [][\A p \in Procs :
          Creates(p) =>
              LET item == Unwrap(frame'[p].item)
              IN  authenticate(api_keys', item.key, clock).result =
                      Some(AuthenticatedApiKey(item.id, item.routing_mode,
                                               item.credential_id))]_vars

C28_OnlyEnabledStoredKeys ==
    [][\A p \in Procs :
          Authenticates(p) =>
              LET key == frame'[p].incoming
                  accepted == IsSome(key) /\ EnabledKey(api_keys, Unwrap(key))
              IN  /\ accepted <=> pc'[p] = "handler"
                  /\ ~accepted <=>
                         (pc'[p] = "unauthorized" /\ frame'[p].status = 401)
                  /\ pc'[p] = "handler" =>
                         \E i \in DOMAIN api_keys :
                             /\ api_keys[i].enabled = 1
                             /\ api_keys[i].key = Unwrap(key)
                             /\ frame'[p].authed =
                                    Some(AuthenticatedApiKey(
                                        api_keys[i].id,
                                        list(api_keys)[i].routing_mode,
                                        list(api_keys)[i].credential_id))]_vars

C28_CreateThenAuthenticate ==
    C28_CreatedKeyAuthenticates /\ C28_OnlyEnabledStoredKeys

\* the same round trip with the credential_id the store kept for the key
C28_CreatedKeyAuthenticatesAsStored ==
    [][\A p \in Procs :
          Creates(p) =>
              LET item == Unwrap(frame'[p].item)
              IN  authenticate(api_keys', item.key, clock).result =
                      Some(AuthenticatedApiKey(
                          item.id, item.routing_mode,
                          IF IsSome(item.credential_id)
                              /\ Unwrap(item.credential_id) <= I64_MAX
                          THEN item.credential_id ELSE None))]_vars

(***************************************************************************)
(* C24: the routing decision is a function of its inputs: Fixed(id) if the *)
(* key has routing_mode = fixed and a credential_id; otherwise Sticky with *)
(* identity api_key = "<api_key_id>:<x_user_id>" if a tracker is present,  *)
(* the load-balancing mode is "sticky" and header X-User-Id is non-empty;  *)
(* otherwise Global.  A fixed key with a credential_id is never routed     *)
(* Sticky or Global, and X-User-Id has no effect outside sticky mode.      *)
(***************************************************************************)
\* thread p has taken its routing decision
Routed(p) == frame[p].op = "post_messages" /\ IsSome(frame[p].decision)

\* the decision of the three rules, for a header that counts as given or not
RouteByRules(auth, is_sticky, user_id_given, user_id) ==
    IF auth.routing_mode = Fixed /\ IsSome(auth.credential_id)
    THEN [kind |-> "Fixed", credential_id |-> auth.credential_id, api_key |-> None]
    ELSE IF is_sticky /\ user_id_given
    THEN [kind |-> "Sticky", credential_id |-> None,
          api_key |-> Some(auth.key_id \o ":" \o user_id)]
    ELSE [kind |-> "Global", credential_id |-> None, api_key |-> None]

\* the decision taken, with the identity's api_key
Decision(p) ==
    LET d == Unwrap(frame[p].decision)
    IN  [kind |-> d.kind, credential_id |-> d.credential_id,
         api_key |-> IF IsSome(d.identity) THEN Some(Unwrap(d.identity).api_key)
                     ELSE None]

\* the header is present and its value is not empty
HeaderNonEmpty(h) == IsSome(h) /\ Unwrap(h).bytes # ""
\* the header is present and its value is a non-empty string of visible ASCII
HeaderNonEmptyText(h) == HeaderNonEmpty(h) /\ Unwrap(h).visible_ascii

HeaderBytes(h) == IF IsSome(h) THEN Unwrap(h).bytes ELSE ""

\* the fixed key and the mode clauses
C24_FixedAndMode ==
    \A p \in Procs :
        Routed(p) =>
            LET auth == Unwrap(frame[p].authed)
            IN  /\ (auth.routing_mode = Fixed /\ IsSome(auth.credential_id)) =>
                       Decision(p).kind = "Fixed"
                /\ ~frame[p].is_sticky =>
                       Decision(p) = RouteByRules(auth, FALSE, FALSE, "")

WholeSeconds(n, x) == 8 * n >= x.eighths /\ 8 * (n - 1) < x.eighths

NonRetryable(message) ==
    \/ contains(message, "CONTENT_LENGTH_EXCEEDS_THRESHOLD")
    \/ contains(message, "Input is too long")

\* thread p is about to send the response of post_messages
Responds(p) == pc[p] = "response" /\ frame[p].op = "post_messages"

C25_ErrorsMapped ==
    \A p \in Procs :
        Responds(p) =>
            LET response == Unwrap(frame[p].response)
                error == frame[p].error
            IN  /\ frame[p].api_calls <= 1
                /\ ~frame[p].kiro_provider =>
                       response.status = 503 /\ frame[p].api_calls = 0
                /\ (IsSome(error) /\ Unwrap(error).kind = "AllFull") =>
                       /\ response.status = 429
                       /\ response.error_type = "overloaded_error"
                       /\ IsSome(response.retry_after)
                       /\ WholeSeconds(Unwrap(response.retry_after),
                                       Unwrap(Unwrap(error).retry_after_secs))
                /\ (IsSome(error) /\ Unwrap(error).kind \in {"Error", "ApiError"}) =>
                       /\ frame[p].api_calls = 1
                       /\ response.retry_after = None
                       /\ IF NonRetryable(Unwrap(Unwrap(error).error))
                          THEN /\ response.status = 400
                               /\ response.error_type = "invalid_request_error"
                          ELSE /\ response.status = 502
                               /\ response.error_type = "api_error"

\* a rejection with a retry_after_secs just below 10 is answered with
\* Retry-After: 10 after one provider call
C25_Witness ==
    \E p \in Procs :
        /\ Responds(p)
        /\ IsSome(frame[p].error)
        /\ Unwrap(frame[p].error).kind = "AllFull"
        /\ Unwrap(Unwrap(frame[p].error).retry_after_secs).below > 0
        /\ Unwrap(frame[p].response) = ErrorResponse(429, "overloaded_error", Some(10))
        /\ frame[p].api_calls = 1

\* the last ContextUsage event of a sequence, 0 if there is none
LastContextUsage(events) ==
    LET arrived == {i \in DOMAIN events : events[i].kind = "ContextUsage"}
    IN  IF arrived = {} THEN 0 ELSE CHOOSE i \in arrived : \A j \in arrived : j <= i

\* n is the whole part of percentage * 200000 / 100
WholePartOfWindow(n, percentage) ==
    /\ n * PercentUnits <= percentage * (200000 \div 100)
    /\ percentage * (200000 \div 100) < (n + 1) * PercentUnits

FinishesNonStream(p) == pc[p] = "decode_iter" /\ pc'[p] = "non_stream_return"

KeyRow(rows, key_id) == rows[CHOOSE i \in DOMAIN rows : rows[i].id = key_id]

TotalActiveCount ==
    SumOver([c \in DOMAIN concurrency |-> concurrency[c].active_count],
            DOMAIN concurrency)

\* the guards constructed whose drop has not finished: a guard inside its drop
\* still counts
OutstandingGuards ==
    DOMAIN guards
        \cup {sid \in 1..(next_stream_id - 1) :
                 \E p \in Procs : /\ pc[p] = "release_decrement"
                                   /\ frame[p].op = "drop"
                                   /\ frame[p].stream_id = Some(sid)}

\* try_acquire calls that have counted their stream and not yet returned its
\* id to the caller who wraps it in a guard
CountedNotWrapped ==
    {p \in Procs : pc[p] \in {"update_binding", "count_stat"}
                       /\ frame[p].path # "all_full"}

\* the streams cleanup_zombies has taken out of the table and not yet
\* uncounted
ZombiesNotUncounted ==
    SumOver([p \in Procs |-> IF pc[p] = "cleanup_decrement"
                             THEN Cardinality(DOMAIN frame[p].removed) ELSE 0],
            Procs)

BeingReserved ==
    {sid \in DOMAIN active_streams :
        \E p \in Procs : pc[p] = "reserve_increment" /\ frame[p].stream_id = Some(sid)}

\* as stated: in every reachable state
C29_NeverUnderCounts ==
    \A c \in Creds, k \in Keys :
        /\ PerKeyCount(concurrency, c, k) >= Cardinality(StreamsOf(c, k))
        /\ PerKeyCount(concurrency, c, k) >= 0

(***************************************************************************)
(* C29: in every reachable state, the states between the removal of an     *)
(* Active Stream and its decrement included, per_key_counts[C][K] is not   *)
(* negative and is at least the number of Active Streams of (C, K) other   *)
(* than a stream that reserve_stream_locked has inserted and, still        *)
(* holding the concurrency lock, not yet counted; the same holds of        *)
(* active_count[C] and the Active Streams of C. So whoever holds the       *)
(* concurrency lock never reads a count below the streams in the table.    *)
(***************************************************************************)
C29_NeverUnderCountsUnlocked ==
    /\ \A c \in Creds, k \in Keys :
           /\ PerKeyCount(concurrency, c, k)
                  >= Cardinality(StreamsOf(c, k) \ BeingReserved)
           /\ PerKeyCount(concurrency, c, k) >= 0
    /\ \A c \in Creds :
           ActiveCount(concurrency, c) >= Cardinality(StreamsOn(c) \ BeingReserved)
    /\ ConcurrencyLockFree => BeingReserved = {}

\* a stream has been removed and not yet uncounted: its key is counted once
\* on a credential that carries none of its streams
C29_Witness ==
    \E p \in Procs, c \in Creds, k \in Keys :
        /\ pc[p] \in {"release_decrement", "cleanup_decrement"}
        /\ PerKeyCount(concurrency, c, k) = 1
        /\ StreamsOf(c, k) = {}

\* the streams thread p has removed from the table and not yet uncounted
Pending(p) == IF MidRelease(p) THEN DOMAIN frame[p].removed ELSE {}

PendingOf(c, k) ==
    SumOver([p \in Procs |->
                Cardinality({sid \in Pending(p) :
                                /\ frame[p].removed[sid].credential_id = c
                                /\ frame[p].removed[sid].api_key = k})],
            Procs)

\* every count is the streams in the table and counted plus the streams
\* removed and awaiting their one decrement
C30_ExactAccounting ==
    \A c \in Creds, k \in Keys :
        PerKeyCount(concurrency, c, k)
            = Cardinality(StreamsOf(c, k) \ BeingReserved) + PendingOf(c, k)

\* a stream awaiting its decrement is out of the table and in the hands of
\* one thread
C30_OneReleaser ==
    \A p \in Procs :
        /\ Pending(p) \cap DOMAIN active_streams = {}
        /\ \A q \in Procs : q # p => Pending(p) \cap Pending(q) = {}

\* ids only grow: a stream entering the table has the next id, above every
\* id issued before
C30_IdsNeverReused ==
    /\ next_stream_id' >= next_stream_id
    /\ \A sid \in DOMAIN active_streams' \ DOMAIN active_streams :
          sid = next_stream_id /\ next_stream_id' = next_stream_id + 1

\* a stream leaves the table into the hands of exactly one thread, and a
\* count is lowered only by a thread uncounting one stream it holds, by one
C30_ReleaseSteps ==
    /\ \A sid \in DOMAIN active_streams \ DOMAIN active_streams' :
          \E p \in Procs : /\ sid \in Pending(p)' /\ sid \notin Pending(p)
                            /\ frame'[p].removed[sid] = active_streams[sid]
    /\ \A c \in Creds, k \in Keys :
          PerKeyCount(concurrency', c, k) < PerKeyCount(concurrency, c, k) =>
              \E p \in Procs : \E sid \in Pending(p) :
                  /\ sid \notin Pending(p)'
                  /\ frame[p].removed[sid].credential_id = c
                  /\ frame[p].removed[sid].api_key = k
                  /\ PerKeyCount(concurrency', c, k) = PerKeyCount(concurrency, c, k) - 1
                  /\ ActiveCount(concurrency', c) = ActiveCount(concurrency, c) - 1
                  /\ \A c2 \in Creds, k2 \in Keys :
                        (c2 # c \/ k2 # k) =>
                            PerKeyCount(concurrency', c2, k2)
                                = PerKeyCount(concurrency, c2, k2)
    /\ \A p \in Procs : \A sid \in Pending(p) :
          sid \notin Pending(p)' =>
              PerKeyCount(concurrency', frame[p].removed[sid].credential_id,
                          frame[p].removed[sid].api_key)
                  = PerKeyCount(concurrency, frame[p].removed[sid].credential_id,
                                frame[p].removed[sid].api_key) - 1

(***************************************************************************)
(* C30: a reservation is released at most once. However deactivate_stream, *)
(* cancel_reservation, cleanup_zombies and the drop of a StreamGuard race  *)
(* for a stream id, the stream leaves the table into the hands of one of   *)
(* them, that one lowers the counts of the stream's credential and key by  *)
(* one, and no count is lowered otherwise, so every count stays equal to   *)
(* the streams in the table plus those awaiting their decrement. Stream    *)
(* ids only grow and a new stream takes an id never issued before, so a    *)
(* release that comes after the stream was reclaimed finds nothing and     *)
(* touches no other stream.                                                *)
(***************************************************************************)
C30_ReleasedAtMostOnce ==
    /\ [](C30_ExactAccounting /\ C30_OneReleaser)
    /\ [][C30_IdsNeverReused /\ C30_ReleaseSteps]_vars

\* cleanup_zombies holds stream 1 for its decrement, the guard of stream 1 has
\* been dropped in the meantime and found nothing, and stream 2 of the same
\* credential and key is in the table: the count is 2
C30_Witness ==
    \E p \in Procs, c \in Creds, k \in Keys :
        /\ pc[p] = "cleanup_decrement"
        /\ 1 \in Pending(p)
        /\ 1 \notin DOMAIN guards
        /\ frame[p].removed[1].credential_id = c
        /\ frame[p].removed[1].api_key = k
        /\ StreamsOf(c, k) = {2}
        /\ PerKeyCount(concurrency, c, k) = 2

\* the same bound for the configurations in which the per-key limit is not
\* below the per-credential limit
C31_WithinLimitWhenKeyLimitNotBelow ==
    max_concurrent_per_key >= max_concurrent_per_credential =>
        \A c \in Creds, k \in Keys :
            PerKeyCount(concurrency, c, k) <= max_concurrent_per_key

(***************************************************************************)
(* C31: for every credential C and API key K and every configuration of    *)
(* the two limits, max_concurrent_per_key below                            *)
(* max_concurrent_per_credential included, per_key_counts[C][K] never      *)
(* exceeds max_concurrent_per_key.                                         *)
(***************************************************************************)
C31_PerKeyWithinLimit ==
    \A c \in Creds, k \in Keys :
        PerKeyCount(concurrency, c, k) <= max_concurrent_per_key

\* the positions of the available credentials that are not full, and those of
\* them with more than half of the limit left
Candidates(f) ==
    {i \in DOMAIN f.available : ActiveCount(f.conc, f.available[i]) < f.max}
PreferredBucket(f) ==
    {i \in Candidates(f) : 2 * ActiveCount(f.conc, f.available[i]) < f.max}
ChosenBucket(f) ==
    IF PreferredBucket(f) # {} THEN PreferredBucket(f)
    ELSE Candidates(f) \ PreferredBucket(f)

(***************************************************************************)
(* C32: global selection picks nothing exactly when every available        *)
(* credential is full (active_count >= max_concurrent_per_credential);     *)
(* otherwise it picks from the preferred bucket (2 * active_count below    *)
(* the limit) if that is not empty and from the rest of the credentials    *)
(* that are not full if it is, and within the bucket the lowest            *)
(* active_count, the earliest position in available_credentials among      *)
(* equals.                                                                 *)
(***************************************************************************)
C32_GlobalSelection ==
    \A p \in Procs :
        pc[p] = "selected" =>
            LET f == frame[p]
                Count(i) == ActiveCount(f.conc, f.available[i])
            IN  IF Candidates(f) = {}
                THEN f.credential_id = None
                ELSE \E i \in ChosenBucket(f) :
                        /\ f.credential_id = Some(f.available[i])
                        /\ \A j \in ChosenBucket(f) :
                              \/ Count(i) < Count(j)
                              \/ Count(i) = Count(j) /\ i <= j

\* limit 4, counts 2, 1, 1 in list order: the second credential is picked,
\* from the preferred bucket, although a credential that is not full comes
\* before it, and before the third, which has the same count
C32_Witness ==
    /\ pc[1] = "selected"
    /\ frame[1].max = 4
    /\ frame[1].available = <<3, 1, 2>>
    /\ ActiveCount(frame[1].conc, 3) = 2
    /\ ActiveCount(frame[1].conc, 1) = 1
    /\ ActiveCount(frame[1].conc, 2) = 1
    /\ frame[1].credential_id = Some(1)

\* thread p, inside try_acquire, decides to drop / drops the binding it read
DecidesToDrop(p) == pc[p] = "lock_concurrency" /\ pc'[p] = "remove_binding"
DropsBinding(p) == pc[p] = "remove_binding" /\ pc'[p] = "count_unbind"

\* the two cases, on the counts conc: the bound credential is not in the
\* call's list, or it is full and the key holds no stream on it
DropCase(f, conc) ==
    LET c == Unwrap(f.bound)
    IN  \/ c \notin Range(f.available)
        \/ /\ ActiveCount(conc, c) >= max_concurrent_per_credential
           /\ PerKeyCount(conc, c, f.api_key) = 0

\* a binding leaves the table only by the hand of a call that found one of
\* the two cases when it held the concurrency lock
C33_DropOnlyInTwoCases ==
    /\ \A p \in Procs : DecidesToDrop(p) => DropCase(frame[p], concurrency)
    /\ \A k \in DOMAIN bindings \ DOMAIN bindings' :
          \E p \in Procs : /\ DropsBinding(p)
                            /\ frame[p].api_key = k
                            /\ bindings[k].credential_id = Unwrap(frame[p].bound)
                            /\ bindings' = MapRemove(bindings, k)

\* one unbind is counted for every drop and for nothing else
C33_UnbindsCountDrops ==
    /\ \A p \in Procs :
          /\ DropsBinding(p) => frame[p].api_key \in DOMAIN bindings \ DOMAIN bindings'
          /\ Leaves(p, "remove_binding") /\ ~DropsBinding(p) =>
                 /\ bindings' = bindings
                 /\ pc'[p] = "relock_concurrency"
          /\ Leaves(p, "count_unbind") =>
                 /\ stats'.unbinds = stats.unbinds + 1
                 /\ pc'[p] = "relock_concurrency"
    /\ stats'.unbinds # stats.unbinds => \E p \in Procs : Leaves(p, "count_unbind")

\* after the drop the call selects globally
C33_ThenGlobalSelection ==
    \A p \in Procs :
        Leaves(p, "relock_concurrency") =>
            LET best == select_best_credential_locked(
                            concurrency, frame[p].available, max_concurrent_per_credential)
            IN  IF IsSome(best)
                THEN /\ pc'[p] = "reserve_increment"
                     /\ frame'[p].path = "assignment"
                     /\ frame'[p].credential_id = best
                ELSE frame'[p].path = "all_full"

\* as stated, the two cases read at the instant of the drop
C33_CaseHoldsAtDrop ==
    [][\A p \in Procs : DropsBinding(p) => DropCase(frame[p], concurrency)]_vars

(***************************************************************************)
(* C33: try_acquire removes a binding, without putting another in its      *)
(* place, only when the call, holding the concurrency lock, found the      *)
(* bound credential missing from its available_credentials, or full with   *)
(* no stream of the key on it. Each removal adds exactly one to unbinds,   *)
(* a call that finds the binding already removed or changed adds nothing   *)
(* (so two racing calls for one key count one unbind), and the call goes   *)
(* on to global selection.                                                 *)
(***************************************************************************)
C33_Unbind ==
    [][C33_DropOnlyInTwoCases /\ C33_UnbindsCountDrops /\ C33_ThenGlobalSelection]_vars

\* two calls for one key have both decided to drop its binding; one has
\* dropped it and is about to count, the other will find nothing
C33_Witness ==
    /\ pc[1] = "count_unbind"
    /\ pc[2] = "remove_binding"
    /\ frame[1].api_key = frame[2].api_key
    /\ frame[1].bound = frame[2].bound
    /\ frame[1].api_key \notin DOMAIN bindings
    /\ stats.unbinds = 0

\* the call of thread p returns its result in this step
TryAcquireReturns(p) == Leaves(p, "count_stat") /\ frame[p].op = "try_acquire"

(***************************************************************************)
(* C34: the credential_id of every Acquired result is one of the           *)
(* available_credentials the call was given, also when the key was bound   *)
(* to another credential when the call began, and whatever other calls do  *)
(* in between.                                                             *)
(***************************************************************************)
C34_AcquiredIsAvailable ==
    [][\A p \in Procs :
          TryAcquireReturns(p) =>
              LET result == TryAcquireResult(frame[p])
              IN  result.kind = "Acquired" =>
                      result.credential_id \in Range(frame[p].available)]_vars

\* a call that found its key bound to credential 2, which its list does not
\* hold, is about to return credential 1
C34_Witness ==
    \E p \in Procs :
        /\ pc[p] = "count_stat"
        /\ frame[p].op = "try_acquire"
        /\ frame[p].bound = Some(2)
        /\ frame[p].available = <<1>>
        /\ TryAcquireResult(frame[p]) = Acquired(1, Unwrap(frame[p].stream_id))

\* try_acquire calls that have begun and not yet returned
CallsInFlight == {p \in Procs : frame[p].op = "try_acquire"}
CompletedCalls == calls - Cardinality(CallsInFlight)

\* stream ids try_acquire has returned: those issued, less the ones a call
\* still in flight has reserved
StreamIdsHandedOut ==
    (next_stream_id - 1)
        - Cardinality({p \in CallsInFlight : IsSome(frame[p].stream_id)})

OutcomeCounters == {"hits", "queue_jumps", "assignments", "rejections_429"}

C35_Sums ==
    /\ stats.hits + stats.queue_jumps + stats.assignments + stats.rejections_429
           = CompletedCalls
    /\ stats.hits + stats.queue_jumps + stats.assignments = StreamIdsHandedOut

C35_OnePerCall ==
    /\ \A p \in Procs :
          TryAcquireReturns(p) =>
              \E counter \in OutcomeCounters :
                  /\ stats'[counter] = stats[counter] + 1
                  /\ \A other \in OutcomeCounters \ {counter} :
                         stats'[other] = stats[other]
    /\ (\E counter \in OutcomeCounters : stats'[counter] # stats[counter]) =>
           \E p \in Procs : TryAcquireReturns(p)
    /\ \A counter \in DOMAIN stats : stats'[counter] >= stats[counter]

(***************************************************************************)
(* C35: a try_acquire call that returns adds one to exactly one of hits,   *)
(* queue_jumps, assignments and rejections_429 and nothing else changes    *)
(* these four, so their sum is the number of completed calls and           *)
(* hits + queue_jumps + assignments is the number of stream ids returned;  *)
(* no counter of the statistics ever decreases.                            *)
(***************************************************************************)
C35_OutcomeCounters == []C35_Sums /\ [][C35_OnePerCall]_vars

\* three calls have returned: an assignment, a hit and a rejection
C35_Witness ==
    /\ \A p \in Procs : pc[p] = "idle"
    /\ calls = 3
    /\ stats.assignments = 1 /\ stats.hits = 1 /\ stats.rejections_429 = 1

\* the emitter of thread p runs its select in this step
BufferedSelects(p) == Polling(p) /\ IsBuffered(frame[p].op) /\ frame'[p] # frame[p]

C36_PingFirst ==
    \A p \in SeqProcs :
        /\ (BufferedSelects(p) /\ frame[p].ping_due) =>
               /\ frame'[p].pings = frame[p].pings + 1
               /\ frame'[p].inner = <<PingBytes>>
               /\ frame'[p].chunks = frame[p].chunks
               /\ frame'[p].buffer = frame[p].buffer
               /\ ~frame'[p].finished
        /\ (pc[p] = "sse_poll" /\ frame[p].ping_due /\ frame'[p].pings = frame[p].pings) =>
               /\ frame'[p].chunks = frame[p].chunks
               /\ frame'[p].finished = frame[p].finished

C36_DuePingGoesOut ==
    \A p \in SeqProcs : \A n \in 0..(MaxPings - 1) :
        (pc[p] = "sse_poll" /\ frame[p].ping_due /\ frame[p].pings = n)
            ~> (/\ pc[p] = "sse_poll"
                /\ frame[p].pings = n + 1
                /\ frame[p].sent # <<>>
                /\ frame[p].sent[Len(frame[p].sent)] = PingBytes)

(***************************************************************************)
(* C36: in buffered mode, when the ping timer is due at a select of the    *)
(* emitter, the select emits a ping frame and consumes no upstream chunk   *)
(* and no end of the upstream; and a due ping is always sent in the end,   *)
(* whatever chunks the upstream has ready.                                 *)
(***************************************************************************)
C36_PingHasPriority == [][C36_PingFirst]_vars /\ C36_DuePingGoesOut

\* a chunk has been buffered, the timer has come due again and the second
\* ping has gone out before the next chunk
C36_Witness ==
    \E p \in SeqProcs :
        /\ pc[p] = "sse_poll"
        /\ IsBuffered(frame[p].op)
        /\ frame[p].chunks = 1
        /\ frame[p].pings = 2
        /\ ~frame[p].ping_due
        /\ frame[p].sent = <<PingBytes, PingBytes>>

\* the events of a transcript: its frames that are not pings, as events
TranscriptEvents(sent) ==
    LET frames == NonPing(sent)
    IN  [i \in DOMAIN frames |-> [event |-> frames[i][2], data |-> frames[i][4]]]

\* message_start placed before all other events, the order otherwise kept
MessageStartFirst(events) ==
    SelectSeq(events, LAMBDA e : e.event = "message_start")
        \o SelectSeq(events, LAMBDA e : e.event # "message_start")

\* the input tokens upstream reported in a body, if it reported any
RECURSIVE UpstreamInputTokens(_, _)
UpstreamInputTokens(body, before) ==
    IF body = <<>> THEN before
    ELSE UpstreamInputTokens(Tail(body), ContextInputTokens(Head(body), before))

\* an event with the input_tokens of message_start replaced
WithInputTokens(e, input_tokens) ==
    IF e.event = "message_start" THEN MessageStart(input_tokens) ELSE e

BothDone == \A p \in Procs : pc[p] = "sse_done"

LastPushed(n) == SubSeq(pushed, Len(pushed) - n + 1, Len(pushed))

C38_RetainsMostRecent ==
    /\ Len(entries) <= MAX_LOG_ENTRIES
    /\ Len(entries) = IF Len(pushed) < MAX_LOG_ENTRIES THEN Len(pushed)
                      ELSE MAX_LOG_ENTRIES
    /\ entries = LastPushed(Len(entries))

C38_EvictsOldest ==
    (pushed' # pushed /\ Len(entries) = MAX_LOG_ENTRIES) =>
        entries' = Append(Tail(entries), pushed'[Len(pushed')])

(***************************************************************************)
(* C38: the request log never holds more than MAX_LOG_ENTRIES entries (200 *)
(* in the program); a push onto a full log removes the oldest entry and    *)
(* no other; the entries kept are always the ones pushed last, in push     *)
(* order.                                                                  *)
(***************************************************************************)
C38_BoundedLog == []C38_RetainsMostRecent /\ [][C38_EvictsOldest]_vars

\* two entries have been evicted from a full log
C38_Witness ==
    /\ Len(pushed) = MAX_LOG_ENTRIES + 2
    /\ Len(entries) = MAX_LOG_ENTRIES
    /\ entries[1] = pushed[Len(pushed) - MAX_LOG_ENTRIES + 1]

\* the place of the entry with the id among all entries pushed; 0 if none
PushIndex(id) ==
    LET found == {i \in DOMAIN pushed : pushed[i].id = id}
    IN  IF found = {} THEN 0 ELSE CHOOSE i \in found : TRUE

\* the place of the oldest entry still in the log among all pushed, less one
Evicted == Len(pushed) - Len(entries)

(***************************************************************************)
(* C39: entries_since(Some(id)) returns, in push order, the retained       *)
(* entries pushed after the entry with that id and none pushed before it;  *)
(* if that entry has been evicted these are all the retained entries;      *)
(* entries_since(None), and entries_since of an id no entry ever had,      *)
(* returns all retained entries.                                           *)
(***************************************************************************)
C39_EntriesSince ==
    [][\A p \in SeqProcs :
          Enters(p, "log_listed") =>
              LET since_id == frame'[p].since_id
                  result == frame'[p].listed
                  k == IF IsSome(since_id) THEN PushIndex(Unwrap(since_id)) ELSE 0
              IN  IF k = 0 THEN result = entries
                  ELSE /\ result = SubSeq(pushed, (IF k > Evicted THEN k ELSE Evicted) + 1,
                                          Len(pushed))
                       /\ k <= Evicted => result = entries
                       /\ \A i \in DOMAIN result : PushIndex(result[i].id) > k]_vars

\* the log has been asked for the entries since an entry that was evicted,
\* and has returned all it holds
C39_Witness ==
    /\ pc[1] = "log_listed"
    /\ Len(pushed) = MAX_LOG_ENTRIES + 2
    /\ frame[1].since_id = Some(pushed[1].id)
    /\ frame[1].listed = entries
    /\ Len(entries) = MAX_LOG_ENTRIES

C40_StatusMoves ==
    \A s \in DOMAIN sessions :
        sessions'[s].status # sessions[s].status =>
            /\ sessions[s].status = "Pending"
            /\ sessions'[s].status \in {"Success", "Failed"}

C40_OneCredential == \A s \in DOMAIN added : Cardinality(added[s]) <= 1

(***************************************************************************)
(* C40: the status of a session changes only from Pending to Success or    *)
(* from Pending to Failed, so that a session that is Success or Failed     *)
(* keeps its status whatever check_status calls run later or at the same   *)
(* time; and no session has more than one credential added for it.         *)
(***************************************************************************)
C40_TerminalIsFinal == [][C40_StatusMoves /\ C40_OneCredential']_vars
====
